---- MODULE Spec2Model ----
(***************************************************************************)
(* Oblysk main process (src/main.js): the input dispatch layer.            *)
(*                                                                         *)
(*   - MainProcessLogger: the bounded, newest-first log buffer             *)
(*   - executeCommand: one child process, a timeout timer and the three    *)
(*     callbacks (timeout, 'close', 'error') guarded by `completed`        *)
(*   - startClipboardMonitoring / stopClipboardMonitoring and the window   *)
(*     events that call them                                               *)
(*   - the requests on the log buffer ('renderer-log',                     *)
(*     'get-main-process-logs')                                            *)
(*   - the Windows paste operations: escapeSendKeys,                       *)
(*     simulateKeystrokesWindows with its batches, pasteViaShellWindows    *)
(*   - the platform paste functions of Linux and macOS, the dispatchers    *)
(*     and the three dispatch handlers ('simulate-keystrokes',             *)
(*     'paste-via-clipboard', 'paste-powershell')                          *)
(*   - the 'paste-powershell' handler of the earlier main process          *)
(*     (src/unnamed/part_000)                                              *)
(*   - setupHotkeys with its report and the 'test-hotkeys' handler         *)
(*   - requests of one handler that overlap in time, each with its own     *)
(*     requestId and closure                                               *)
(*   - the preload bridge (src/preload.js): the channel lists and the      *)
(*     scheme test of openExternal                                         *)
(*                                                                         *)
(* Strings of the program are sequences of tokens (a text is a sequence of *)
(* one-character strings, a message a sequence of its parts), so that      *)
(* length, emptiness and concatenation are those of the program.  A JS     *)
(* object is a record; a property the code does not set is absent from     *)
(* the record's DOMAIN.  The event loop is single threaded: every action   *)
(* is one callback run to completion.                                      *)
(*                                                                         *)
(* Of the messages sent to the renderer only 'clipboard-changed' is        *)
(* recorded (in sent); the copies of log entries ('main-process-log') and  *)
(* the other channels change nothing in this process.  A log entry is its  *)
(* level, category and message; the message starts with its fixed text,    *)
(* followed by the values interpolated into it.                            *)
(***************************************************************************)
EXTENDS Integers, Sequences, FiniteSets, TLC

(***************************************************************************)
(* Bounds of the model                                                     *)
(***************************************************************************)
\* executeCommand invocations in one run
MaxCalls == 1
\* 'data' chunks a child writes to stderr (and to stdout) before it closes
MaxChunks == 1
\* ticks of the clipboard polling timer in one run
MaxTicks == 5
\* logger.log calls in one run
MaxLogCalls == 250
\* length of the texts to type or paste (the example texts are longer)
MaxTextLen == 1
\* the delays of the batch size check are 1..MaxDelay, and 1000
MaxDelay == 210
\* createWindow calls in one run
MaxWindows == 2
\* ticks of the polling timer in a run with several windows
MaxLifeTicks == 1
\* ticks of the polling timer in a run that observes the start
MaxStartTicks == 3
\* the longest text, but for the long ones, typed on macOS
MaxMacLen == 2
\* ticks of the polling timer in a run that restarts the monitor
MaxRestartTicks == 2
\* calls of the renderer on the preload bridge in one run
MaxBridgeCalls == 2
\* the keys globalShortcut.register refuses (returns false for, or throws on)
\* in one setupHotkeys call, but for the calls where it refuses every key
MaxFailedKeys == 2

(***************************************************************************)
(* Inputs                                                                  *)
(***************************************************************************)
CallIds == 1..MaxCalls

\* command and timeoutMs arguments: the paste-shortcut trigger of
\* pasteViaClipboardWindows and the typing command of simulateKeystrokesLinux
Invocations == {<<"powershell", 3000>>, <<"xdotool", 30000>>}

\* requestId arguments: the token the dispatch handler generated
RequestIds == {"r1"}

\* exit codes delivered with 'close'; "null" is the code of a child ended by a signal
ExitCodes == {"0", "1", "null"}

\* err.message of an 'error' event
SpawnErrors == {"spawn ENOENT"}

StdoutChunk == "out"
StderrChunk == "err"

\* clipboard texts: the empty text and two one-character texts
Texts == {<<>>, <<"a">>, <<"b">>}

\* the characters of the texts to type or paste: the ten SendKeys specials, a
\* letter, the single quote, and the two line-end characters
WinChars == {"{", "}", "+", "^", "%", "~", "(", ")", "[", "]", "a", "'", "\n", "\r"}

\* the text a{b}c
ExampleText == <<"a", "{", "b", "}", "c">>

\* the sequences over set S of length n or less
SeqsUpTo(S, n) == UNION {[1..k -> S] : k \in 0..n}

\* the text it's
QuoteText == <<"i", "t", "'", "s">>

WinTexts == SeqsUpTo(WinChars, MaxTextLen) \cup {ExampleText, QuoteText}

\* delay arguments giving the batch sizes 20, 4, 2 and 1
KeyDelays == {10, 50, 100, 200}

SizeDelays == (1..MaxDelay) \cup {1000}

\* process.platform
Platforms == {"win32", "linux", "darwin"}

\* the tools the dispatch functions look for with hasCommand
TypingTools == {"wtype", "xdotool", "ydotool"}

\* the hosts: the display server and the PATH matter on Linux only
Profiles ==
    {[platform |-> p, displayServer |-> "x11", installed |-> {}] : p \in {"win32", "darwin"}}
    \cup {[platform |-> "linux", displayServer |-> d, installed |-> i] :
              d \in {"x11", "wayland"}, i \in SUBSET TypingTools}

\* the characters the AppleScript escaping is tried on: backslash, double quote,
\* a plain letter, and n (backslash n is an escape of AppleScript)
MacChars == {"\\", "\"", "a", "n"}

\* a text of n characters
LongText(n) == [i \in 1..n |-> "a"]

\* texts typed on macOS: the short ones and three around the length limit
MacTexts == SeqsUpTo(MacChars, MaxMacLen) \cup {LongText(199), LongText(200), LongText(201)}

\* texts typed on Linux: empty, plain, with a space, a quote, a shell
\* metacharacter, and one that looks like an option
LinuxTexts == {<<>>, <<"a">>, <<"a", " ", "b">>, <<"'">>, <<"a", ";", "b">>, <<"-", "x">>}

\* texts embedded in a double-quoted PowerShell string
PsChars == {"\\", "\"", "grave", "$", "[", "]", "a", "\n", "\r"}
PsTexts == SeqsUpTo(PsChars, MaxTextLen) \cup {<<"\r", "\n">>, <<"a", "\n", "b">>}

\* the delay of a 'simulate-keystrokes' request
DispDelays == {10, 50}

\* the channels the renderer names on the bridge: those of the three lists of
\* preload.js and one that is in none
BridgeChannels ==
    {"simulate-keystrokes", "paste-via-clipboard", "paste-powershell", "test-hotkeys",
     "get-clipboard-content", "get-main-process-logs",
     "minimize-window", "close-app", "set-local-clipboard", "renderer-log",
     "paste-cell", "copy-to-notepad", "clipboard-changed", "paste-on-deck", "reverse-copy",
     "hotkey-registration-complete", "main-process-log", "show-debug-logs",
     "open-dev-tools"}

\* the URLs given to openExternal: http://a, https://a, HTTP://a, mailto:a,
\* MailTo:a, file:///a, javascript:a, httpx://a, xhttp://a, ftp://a, http://a
\* after a blank, http without a colon, and the empty string
BridgeUrls ==
    { <<"h", "t", "t", "p", ":", "/", "/", "a">>,
      <<"h", "t", "t", "p", "s", ":", "/", "/", "a">>,
      <<"H", "T", "T", "P", ":", "/", "/", "a">>,
      <<"m", "a", "i", "l", "t", "o", ":", "a">>,
      <<"M", "a", "i", "l", "T", "o", ":", "a">>,
      <<"f", "i", "l", "e", ":", "/", "/", "/", "a">>,
      <<"j", "a", "v", "a", "s", "c", "r", "i", "p", "t", ":", "a">>,
      <<"h", "t", "t", "p", "x", ":", "/", "/", "a">>,
      <<"x", "h", "t", "t", "p", ":", "/", "/", "a">>,
      <<"f", "t", "p", ":", "/", "/", "a">>,
      <<" ", "h", "t", "t", "p", ":", "/", "/", "a">>,
      <<"h", "t", "t", "p">>,
      <<>> }

\* the requestIds of the requests that overlap
OverlapRequestIds == {"r1", "r2"}

\* the texts and delays of the 'simulate-keystrokes' requests that overlap: one
\* or two batches
OverlapTexts == {<<"a", "b">>, <<"c">>}
OverlapDelays == {100, 200}

\* the texts of the 'paste-via-clipboard' requests that overlap
OverlapPasteTexts == {<<"a">>, <<"b">>}

\* error.message of a failed exec
ExecErrors == {"Command failed"}

VARIABLES
    logs,                       \* logger.logs, newest first
    calls,                      \* the executeCommand invocations, by invocation number
    mainWindow,                 \* <<>> is null, <<w>> the BrowserWindow w
    isQuitting,
    tray,                       \* whether createTray left a tray
    clipboardMonitorInterval,   \* <<>> is null, <<t>> the interval timer t
    lastClipboardText,
    appPhase,                   \* "starting", "ready", "quitting", "exited"
    windows,                    \* BrowserWindow.getAllWindows()
    loading,                    \* windows whose 'dom-ready' has not fired
    windowsCreated,             \* number of createWindow calls
    pendingShow,                \* pending 100 ms timeouts set by 'dom-ready'
    allClosedPending,           \* 'window-all-closed' emitted, handler not yet run
    timers,                     \* the interval timers that are active (not cleared)
    clipboard,                  \* the text on the system clipboard
    registered,                 \* accelerators registered with globalShortcut
    sent,                       \* 'clipboard-changed' messages sent to the renderer
    tickLog,                    \* history: the ticks since the last start, each with
                                \* its read, the snapshot and Len(sent) around it
    startSnapshot,              \* history: lastClipboardText after the last start
    sentAtStart,                \* history: Len(sent) at the last start
    ticks,                      \* history: number of ticks in the run
    startHist,                  \* history: the last start of the monitor as seen from
                                \* outside: whether its read returned, the text on the
                                \* clipboard then, and whether it was replaced since
    inserted,                   \* history: the entries passed to logger.log by the
                                \* renderer's requests and at load, oldest first
    logsReply,                  \* <<>>, or <<r>>: the last 'get-main-process-logs' reply
    typing,                     \* the simulateKeystrokesWindows invocation
    shellCommand,               \* <<>>, or <<c>>: the command pasteViaShellWindows built
    PLATFORM,                   \* process.platform: "win32", "linux" or "darwin"
    linuxDisplayServer,         \* "x11" or "wayland"
    installed,                  \* the tools `which` finds on the PATH
    probes,                     \* history: the hasCommand calls, in order
    request,                    \* the dispatch request (one of the three ipcMain.handle
                                \* handlers) and where it is suspended
    hotkeyReport,               \* <<>>, or <<p>>: the payload of the last
                                \* 'hotkey-registration-complete' of setupHotkeys
    hotkeyTest,                 \* <<>>, or <<r>>: the last 'test-hotkeys' result
    bridge,                     \* history: the calls the renderer made on the preload
                                \* bridge, each with what was passed on or thrown
    typings,                    \* the 'simulate-keystrokes' requests that overlap
    pastes                      \* the 'paste-via-clipboard' requests that overlap

execVars == <<calls>>
monVars == <<mainWindow, isQuitting, tray, clipboardMonitorInterval, lastClipboardText,
             appPhase, windows, loading, windowsCreated, pendingShow, allClosedPending,
             timers, clipboard, registered, sent, tickLog, startSnapshot, sentAtStart,
             ticks>>
obsVars == <<startHist, inserted, logsReply>>
winVars == <<typing, shellCommand>>
dispVars == <<PLATFORM, linuxDisplayServer, installed, probes, request>>
ipcVars == <<hotkeyReport, hotkeyTest, bridge, typings, pastes>>
vars == <<logs, execVars, monVars, obsVars, winVars, dispVars, ipcVars>>

(***************************************************************************)
(* MainProcessLogger                                                       *)
(***************************************************************************)
maxLogs == 200

\* log() with shift() for pop(): the entry dropped is the newest
LoggerLogDropsNewest(buf, level, category, message) ==
    LET entry == [level |-> level, category |-> category, message |-> message]
        pushed == <<entry>> \o buf
    IN  IF Len(pushed) > maxLogs THEN Tail(pushed) ELSE pushed

\* log() with push() for unshift(): the entry is added at the end
LoggerLogPush(buf, level, category, message) ==
    LET entry == [level |-> level, category |-> category, message |-> message]
        pushed == buf \o <<entry>>
    IN  IF Len(pushed) > maxLogs THEN SubSeq(pushed, 1, Len(pushed) - 1) ELSE pushed

\* this.logs.unshift(entry); if (this.logs.length > this.maxLogs) this.logs.pop()
LoggerLog(buf, level, category, message) ==
    LET entry == [level |-> level, category |-> category, message |-> message]
        pushed == <<entry>> \o buf
    IN  IF Len(pushed) > maxLogs THEN SubSeq(pushed, 1, Len(pushed) - 1) ELSE pushed

(***************************************************************************)
(* executeCommand                                                          *)
(***************************************************************************)
\* a slot whose executeCommand has not been called yet.  resolves lists the values
\* passed to resolve(), in order: the promise takes the first.  events is history:
\* the callbacks that ran (timeout, close, error), in order, with their argument
NoCall ==
    [started |-> FALSE, command |-> "", timeoutMs |-> 0, requestId |-> "",
     completed |-> FALSE, timer |-> "none", killed |-> FALSE,
     closeEmitted |-> FALSE, errorEmitted |-> FALSE,
     output |-> <<>>, error |-> <<>>, resolves |-> <<>>, events |-> <<>>]

\* executeCommand with the setTimeout left out
executeCommandNoTimer(c, command, timeoutMs, requestId) ==
    /\ ~calls[c].started
    /\ \A d \in CallIds : d < c => calls[d].started
    /\ calls' = [calls EXCEPT ![c] =
                    [NoCall EXCEPT !.started = TRUE, !.command = command,
                                   !.timeoutMs = timeoutMs, !.requestId = requestId]]
    /\ logs' = LoggerLog(logs, "info", "command", <<"Executing", requestId, command>>)

\* the promise executor: log, spawn, declare output/error/completed, arm the timer
executeCommand(c, command, timeoutMs, requestId) ==
    /\ ~calls[c].started
    /\ \A d \in CallIds : d < c => calls[d].started
    /\ calls' = [calls EXCEPT ![c] =
                    [NoCall EXCEPT !.started = TRUE, !.command = command,
                                   !.timeoutMs = timeoutMs, !.requestId = requestId,
                                   !.timer = "armed"]]
    /\ logs' = LoggerLog(logs, "info", "command", <<"Executing", requestId, command>>)

\* the setTimeout callback with proc.kill() left out
onTimeoutNoKill(c) ==
    /\ calls[c].timer = "armed"
    /\ ~calls[c].completed
    /\ calls' = [calls EXCEPT
            ![c].timer = "fired",
            ![c].events = Append(@, [type |-> "timeout", arg |-> ""]),
            ![c].completed = TRUE,
            ![c].resolves = Append(@,
                [success |-> FALSE, error |-> <<"Command timed out">>,
                 timeout |-> calls[c].timeoutMs])]
    /\ logs' = LoggerLog(logs, "error", "command",
                         <<"Command timed out after", calls[c].requestId, calls[c].timeoutMs>>)

\* the setTimeout callback
onTimeout(c) ==
    /\ calls[c].timer = "armed"
    /\ IF ~calls[c].completed
       THEN /\ calls' = [calls EXCEPT
                    ![c].timer = "fired",
                    ![c].events = Append(@, [type |-> "timeout", arg |-> ""]),
                    ![c].completed = TRUE,
                    ![c].killed = TRUE,
                    ![c].resolves = Append(@,
                        [success |-> FALSE, error |-> <<"Command timed out">>,
                         timeout |-> calls[c].timeoutMs])]
            /\ logs' = LoggerLog(logs, "error", "command",
                                 <<"Command timed out after", calls[c].requestId, calls[c].timeoutMs>>)
       ELSE /\ calls' = [calls EXCEPT ![c].timer = "fired",
                                      ![c].events = Append(@, [type |-> "timeout", arg |-> ""])]
            /\ UNCHANGED logs

\* proc.stdout.on('data')
onStdoutData(c) ==
    /\ calls[c].started
    /\ ~calls[c].closeEmitted
    /\ Len(calls[c].output) < MaxChunks
    /\ calls' = [calls EXCEPT ![c].output = Append(@, StdoutChunk)]
    /\ UNCHANGED logs

\* proc.stderr.on('data')
onStderrData(c) ==
    /\ calls[c].started
    /\ ~calls[c].closeEmitted
    /\ Len(calls[c].error) < MaxChunks
    /\ calls' = [calls EXCEPT ![c].error = Append(@, StderrChunk)]
    /\ UNCHANGED logs

\* the 'close' result with the captured stderr ignored
CloseResultGeneric(call, code) ==
    IF code = "0"
    THEN [success |-> TRUE, message |-> <<"Command executed successfully">>,
          output |-> call.output, code |-> code]
    ELSE [success |-> FALSE, error |-> <<"Command failed with code ", code>>,
          output |-> call.output, code |-> code]

\* the result passed to resolve() by the 'close' callback
CloseResult(call, code) ==
    IF code = "0"
    THEN [success |-> TRUE, message |-> <<"Command executed successfully">>,
          output |-> call.output, code |-> code]
    ELSE [success |-> FALSE,
          error |-> IF call.error # <<>> THEN call.error
                    ELSE <<"Command failed with code ", code>>,
          output |-> call.output, code |-> code]

\* the 'close' callback without the `completed` test
onCloseUnguarded(c, code) ==
    /\ calls[c].started
    /\ ~calls[c].closeEmitted
    /\ calls' = [calls EXCEPT
            ![c].closeEmitted = TRUE,
            ![c].events = Append(@, [type |-> "close", arg |-> code]),
            ![c].completed = TRUE,
            ![c].timer = IF @ = "armed" THEN "cleared" ELSE @,
            ![c].resolves = Append(@, CloseResult(calls[c], code))]
    /\ logs' = LoggerLog(logs, IF code = "0" THEN "success" ELSE "error", "command",
                         <<"Command finished with code", calls[c].requestId, code>>)

\* the 'close' callback with the log call moved in front of the `completed` test
onCloseLogsFirst(c, code) ==
    /\ calls[c].started
    /\ ~calls[c].closeEmitted
    /\ logs' = LoggerLog(logs, IF code = "0" THEN "success" ELSE "error", "command",
                         <<"Command finished with code", calls[c].requestId, code>>)
    /\ IF ~calls[c].completed
       THEN calls' = [calls EXCEPT
                    ![c].closeEmitted = TRUE,
                    ![c].events = Append(@, [type |-> "close", arg |-> code]),
                    ![c].completed = TRUE,
                    ![c].timer = IF @ = "armed" THEN "cleared" ELSE @,
                    ![c].resolves = Append(@, CloseResult(calls[c], code))]
       ELSE calls' = [calls EXCEPT ![c].closeEmitted = TRUE,
                                   ![c].events = Append(@, [type |-> "close", arg |-> code])]

\* proc.on('close')
onClose(c, code) ==
    /\ calls[c].started
    /\ ~calls[c].closeEmitted
    /\ IF ~calls[c].completed
       THEN /\ calls' = [calls EXCEPT
                    ![c].closeEmitted = TRUE,
                    ![c].events = Append(@, [type |-> "close", arg |-> code]),
                    ![c].completed = TRUE,
                    ![c].timer = IF @ = "armed" THEN "cleared" ELSE @,
                    ![c].resolves = Append(@, CloseResult(calls[c], code))]
            /\ logs' = LoggerLog(logs, IF code = "0" THEN "success" ELSE "error", "command",
                                 <<"Command finished with code", calls[c].requestId, code>>)
       ELSE /\ calls' = [calls EXCEPT ![c].closeEmitted = TRUE,
                                      ![c].events = Append(@, [type |-> "close", arg |-> code])]
            /\ UNCHANGED logs

\* the 'error' callback with clearTimeout left out
onErrorKeepsTimer(c, msg) ==
    /\ calls[c].started
    /\ ~calls[c].errorEmitted
    /\ IF ~calls[c].completed
       THEN /\ calls' = [calls EXCEPT
                    ![c].errorEmitted = TRUE,
                    ![c].events = Append(@, [type |-> "error", arg |-> msg]),
                    ![c].completed = TRUE,
                    ![c].resolves = Append(@, [success |-> FALSE, error |-> <<msg>>])]
            /\ logs' = LoggerLog(logs, "error", "command",
                                 <<"Command error", calls[c].requestId, msg>>)
       ELSE /\ calls' = [calls EXCEPT ![c].errorEmitted = TRUE,
                                      ![c].events = Append(@, [type |-> "error", arg |-> msg])]
            /\ UNCHANGED logs

\* proc.on('error')
onError(c, msg) ==
    /\ calls[c].started
    /\ ~calls[c].errorEmitted
    /\ IF ~calls[c].completed
       THEN /\ calls' = [calls EXCEPT
                    ![c].errorEmitted = TRUE,
                    ![c].events = Append(@, [type |-> "error", arg |-> msg]),
                    ![c].completed = TRUE,
                    ![c].timer = IF @ = "armed" THEN "cleared" ELSE @,
                    ![c].resolves = Append(@, [success |-> FALSE, error |-> <<msg>>])]
            /\ logs' = LoggerLog(logs, "error", "command",
                                 <<"Command error", calls[c].requestId, msg>>)
       ELSE /\ calls' = [calls EXCEPT ![c].errorEmitted = TRUE,
                                      ![c].events = Append(@, [type |-> "error", arg |-> msg])]
            /\ UNCHANGED logs

(***************************************************************************)
(* Global hotkeys (setupHotkeys)                                           *)
(***************************************************************************)
Digits == <<"1", "2", "3", "4", "5", "6", "7", "8", "9">>

\* the loop of lines 327-366: for each i the regular key, then the numpad key
PasteKeys ==
    [n \in 1..(2 * Len(Digits)) |->
        IF n % 2 = 1 THEN <<"CommandOrControl+Alt+", Digits[(n + 1) \div 2]>>
                     ELSE <<"CommandOrControl+Alt+num", Digits[n \div 2]>>]

AdditionalKeys ==
    << <<"CommandOrControl+Alt+", "O">>, <<"CommandOrControl+Alt+", "C">>,
       <<"CommandOrControl+Alt+", "V">>, <<"CommandOrControl+Alt+", "R">> >>

HotkeyKeySet ==
    {PasteKeys[n] : n \in DOMAIN PasteKeys} \cup {AdditionalKeys[n] : n \in DOMAIN AdditionalKeys}

\* what globalShortcut.register does for each key: returns true ("ok"), returns
\* false ("fail"), or throws ("throw")
AllRegistered == [k \in HotkeyKeySet |-> "ok"]

HotkeyOutcomes ==
    { AllRegistered,
      [k \in HotkeyKeySet |->
            CASE k = <<"CommandOrControl+Alt+", "1">> -> "throw"
              [] k = <<"CommandOrControl+Alt+num", "9">> -> "fail"
              [] k = <<"CommandOrControl+Alt+", "O">> -> "fail"
              [] k = <<"CommandOrControl+Alt+", "R">> -> "throw"
              [] OTHER -> "ok"] }

\* the sets of n keys or fewer
RECURSIVE KeySetsUpTo(_)
KeySetsUpTo(n) ==
    IF n = 0 THEN {{}}
    ELSE KeySetsUpTo(n - 1) \cup {s \cup {k} : s \in KeySetsUpTo(n - 1), k \in HotkeyKeySet}

\* register refuses MaxFailedKeys keys or fewer, each by returning false or by
\* throwing, or it refuses every key
RefusedOutcomes ==
    {[k \in HotkeyKeySet |-> IF k \in DOMAIN f THEN f[k] ELSE "ok"] :
        f \in UNION {[s -> {"fail", "throw"}] : s \in KeySetsUpTo(MaxFailedKeys)}}
    \cup {[k \in HotkeyKeySet |-> "fail"], [k \in HotkeyKeySet |-> "throw"]}

\* the try { register } catch with an empty catch block for the paste keys
RegisterKeyDropsThrown(acc, k, outcome, additional) ==
    CASE outcome = "ok" ->
            [acc EXCEPT !.count = @ + 1,
                        !.registered = @ \cup {k},
                        !.logs = IF additional
                                 THEN LoggerLog(@, "info", "hotkeys", <<"Registered", k>>)
                                 ELSE @]
      [] outcome = "fail" ->
            [acc EXCEPT !.failed = Append(@, k),
                        !.logs = IF additional
                                 THEN LoggerLog(@, "warn", "hotkeys", <<"Failed to register", k>>)
                                 ELSE @]
      [] OTHER ->
            [acc EXCEPT !.failed = IF additional THEN Append(@, k) ELSE @,
                        !.logs = IF additional
                                 THEN LoggerLog(@, "error", "hotkeys", <<"Error registering", k>>)
                                 ELSE @]

\* one try { register } catch of the paste-key loop (additional = FALSE) or of the
\* additionalHotkeys.forEach (additional = TRUE)
RegisterKey(acc, k, outcome, additional) ==
    CASE outcome = "ok" ->
            [acc EXCEPT !.count = @ + 1,
                        !.registered = @ \cup {k},
                        !.logs = IF additional
                                 THEN LoggerLog(@, "info", "hotkeys", <<"Registered", k>>)
                                 ELSE @]
      [] outcome = "fail" ->
            [acc EXCEPT !.failed = Append(@, k),
                        !.logs = IF additional
                                 THEN LoggerLog(@, "warn", "hotkeys", <<"Failed to register", k>>)
                                 ELSE @]
      [] OTHER ->
            [acc EXCEPT !.failed = Append(@, k),
                        !.logs = IF additional
                                 THEN LoggerLog(@, "error", "hotkeys", <<"Error registering", k>>)
                                 ELSE LoggerLog(@, "error", "hotkeys", <<"Failed to register", k>>)]

RECURSIVE RegisterKeys(_, _, _, _)
RegisterKeys(acc, keys, o, additional) ==
    IF keys = <<>> THEN acc
    ELSE RegisterKeys(RegisterKey(acc, Head(keys), o[Head(keys)], additional),
                      Tail(keys), o, additional)

\* setupHotkeys(): the log buffer, the registered accelerators, registeredCount
\* and failedHotkeys it leaves
setupHotkeys(buf, o) ==
    LET acc0 == [logs |-> LoggerLog(buf, "info", "hotkeys", <<"Setting up global hotkeys">>),
                 registered |-> {}, count |-> 0, failed |-> <<>>]
        acc1 == RegisterKeys(acc0, PasteKeys, o, FALSE)
        acc2 == RegisterKeys(acc1, AdditionalKeys, o, TRUE)
        l3 == LoggerLog(acc2.logs, "info", "hotkeys", <<"Registered hotkeys", acc2.count>>)
    IN  [acc2 EXCEPT !.logs =
            IF Len(acc2.failed) > 0
            THEN LoggerLog(l3, "warn", "hotkeys", <<"Failed to register hotkeys", Len(acc2.failed)>>)
            ELSE l3]

\* the object the 500 ms timeout of setupHotkeys sends with
\* 'hotkey-registration-complete'; h is what setupHotkeys left
hotkeyRegistrationComplete(h) ==
    [success |-> h.count > 0, registered |-> h.count, total |-> 22, failed |-> h.failed]

\* setupHotkeys() called on its own; o is what globalShortcut.register does
setupHotkeysCall(o) ==
    /\ hotkeyReport = <<>>
    /\ LET h == setupHotkeys(logs, o)
       IN  /\ logs' = h.logs
           /\ registered' = h.registered
           /\ hotkeyReport' = <<hotkeyRegistrationComplete(h)>>
    /\ UNCHANGED <<calls, mainWindow, isQuitting, tray, clipboardMonitorInterval,
                   lastClipboardText, appPhase, windows, loading, windowsCreated, pendingShow,
                   allClosedPending, timers, clipboard, sent, tickLog, startSnapshot,
                   sentAtStart, ticks, obsVars, winVars, dispVars, hotkeyTest, bridge,
                   typings, pastes>>

(***************************************************************************)
(* Clipboard monitoring                                                    *)
(***************************************************************************)
\* the globals the monitor functions read and write, with the timer table
MonState ==
    [interval |-> clipboardMonitorInterval, timers |-> timers,
     last |-> lastClipboardText, logs |-> logs]

\* stopClipboardMonitoring with the log call outside the if
stopClipboardMonitoringAlwaysLogs(m) ==
    [m EXCEPT !.interval = <<>>,
              !.timers = IF m.interval # <<>> THEN @ \ {m.interval[1]} ELSE @,
              !.logs = LoggerLog(@, "info", "clipboard", <<"Clipboard monitoring stopped">>)]

\* if (clipboardMonitorInterval) { clearInterval; = null; log }
stopClipboardMonitoring(m) ==
    IF m.interval # <<>>
    THEN [m EXCEPT !.interval = <<>>,
                   !.timers = @ \ {m.interval[1]},
                   !.logs = LoggerLog(@, "info", "clipboard", <<"Clipboard monitoring stopped">>)]
    ELSE m

\* the Timeout object setInterval returns: one that is not an active timer
FreshTimer(ts) == CHOOSE t \in 1..(Cardinality(ts) + 1) : t \notin ts

\* startClipboardMonitoring without the initial read: the snapshot stays as it is
startClipboardMonitoringNoBaseline(m, readOk, clip) ==
    LET m1 == [m EXCEPT !.logs = LoggerLog(@, "info", "clipboard", <<"Starting clipboard monitoring">>)]
        m2 == stopClipboardMonitoring(m1)
        t == FreshTimer(m2.timers)
    IN  [m2 EXCEPT !.interval = <<t>>, !.timers = @ \cup {t}]

\* startClipboardMonitoring without its stopClipboardMonitoring() call
startClipboardMonitoringNoStop(m, readOk, clip) ==
    LET m1 == [m EXCEPT !.logs = LoggerLog(@, "info", "clipboard", <<"Starting clipboard monitoring">>)]
        m3 == IF readOk
              THEN [m1 EXCEPT !.last = clip,
                              !.logs = LoggerLog(@, "info", "clipboard",
                                                 <<"Initial clipboard content", Len(clip)>>)]
              ELSE [m1 EXCEPT !.logs = LoggerLog(@, "warn", "clipboard",
                                                 <<"Could not read initial clipboard">>),
                              !.last = <<>>]
        t == FreshTimer(m3.timers)
    IN  [m3 EXCEPT !.interval = <<t>>, !.timers = @ \cup {t}]

\* startClipboardMonitoring(); readOk: whether the initial clipboard.readText() returns
startClipboardMonitoring(m, readOk, clip) ==
    LET m1 == [m EXCEPT !.logs = LoggerLog(@, "info", "clipboard", <<"Starting clipboard monitoring">>)]
        m2 == stopClipboardMonitoring(m1)
        m3 == IF readOk
              THEN [m2 EXCEPT !.last = clip,
                              !.logs = LoggerLog(@, "info", "clipboard",
                                                 <<"Initial clipboard content", Len(clip)>>)]
              ELSE [m2 EXCEPT !.logs = LoggerLog(@, "warn", "clipboard",
                                                 <<"Could not read initial clipboard">>),
                              !.last = <<>>]
        t == FreshTimer(m3.timers)
    IN  [m3 EXCEPT !.interval = <<t>>, !.timers = @ \cup {t}]

\* the condition without the length test
ClipboardChangedAnyText(currentText, last) ==
    currentText # last

\* the condition of line 467
ClipboardChanged(currentText, last) ==
    currentText # last /\ Len(currentText) > 0

\* the callback with the assignment to lastClipboardText left out
tickKeepsSnapshot(t, readOk) ==
    /\ t \in timers
    /\ ticks' = ticks + 1
    /\ LET currentText == clipboard
           changed == readOk /\ ClipboardChanged(currentText, lastClipboardText)
           emits == changed /\ mainWindow # <<>>
       IN  /\ lastClipboardText' = lastClipboardText
           /\ logs' = IF ~readOk
                      THEN LoggerLog(logs, "debug", "clipboard", <<"Clipboard read error (normal)">>)
                      ELSE IF changed
                      THEN LoggerLog(logs, "info", "clipboard",
                                     <<"Clipboard changed", Len(lastClipboardText), Len(currentText)>>)
                      ELSE logs
           /\ sent' = IF emits THEN Append(sent, currentText) ELSE sent
           /\ tickLog' = Append(tickLog,
                                [ok |-> readOk, text |-> IF readOk THEN currentText ELSE <<>>,
                                 before |-> lastClipboardText, after |-> lastClipboardText',
                                 sentBefore |-> Len(sent), sentAfter |-> Len(sent')])
    /\ UNCHANGED <<calls, mainWindow, isQuitting, tray, clipboardMonitorInterval, appPhase,
                   windows, loading, windowsCreated, pendingShow, allClosedPending, timers,
                   clipboard, registered, startSnapshot, sentAtStart>>

\* the callback with an empty catch block
tickSilentOnError(t, readOk) ==
    /\ t \in timers
    /\ ticks' = ticks + 1
    /\ LET currentText == clipboard
           changed == readOk /\ ClipboardChanged(currentText, lastClipboardText)
           emits == changed /\ mainWindow # <<>>
       IN  /\ lastClipboardText' = IF changed THEN currentText ELSE lastClipboardText
           /\ logs' = IF ~readOk
                      THEN logs
                      ELSE IF changed
                      THEN LoggerLog(logs, "info", "clipboard",
                                     <<"Clipboard changed", Len(lastClipboardText), Len(currentText)>>)
                      ELSE logs
           /\ sent' = IF emits THEN Append(sent, currentText) ELSE sent
           /\ tickLog' = Append(tickLog,
                                [ok |-> readOk, text |-> IF readOk THEN currentText ELSE <<>>,
                                 before |-> lastClipboardText, after |-> lastClipboardText',
                                 sentBefore |-> Len(sent), sentAfter |-> Len(sent')])
    /\ UNCHANGED <<calls, mainWindow, isQuitting, tray, clipboardMonitorInterval, appPhase,
                   windows, loading, windowsCreated, pendingShow, allClosedPending, timers,
                   clipboard, registered, startSnapshot, sentAtStart>>

\* the setInterval callback of timer t; readOk: whether clipboard.readText() returns
tick(t, readOk) ==
    /\ t \in timers
    /\ ticks' = ticks + 1
    /\ LET currentText == clipboard
           changed == readOk /\ ClipboardChanged(currentText, lastClipboardText)
           emits == changed /\ mainWindow # <<>>
       IN  /\ lastClipboardText' = IF changed THEN currentText ELSE lastClipboardText
           /\ logs' = IF ~readOk
                      THEN LoggerLog(logs, "debug", "clipboard", <<"Clipboard read error (normal)">>)
                      ELSE IF changed
                      THEN LoggerLog(logs, "info", "clipboard",
                                     <<"Clipboard changed", Len(lastClipboardText), Len(currentText)>>)
                      ELSE logs
           /\ sent' = IF emits THEN Append(sent, currentText) ELSE sent
           /\ tickLog' = Append(tickLog,
                                [ok |-> readOk, text |-> IF readOk THEN currentText ELSE <<>>,
                                 before |-> lastClipboardText, after |-> lastClipboardText',
                                 sentBefore |-> Len(sent), sentAfter |-> Len(sent')])
    /\ UNCHANGED <<calls, mainWindow, isQuitting, tray, clipboardMonitorInterval, appPhase,
                   windows, loading, windowsCreated, pendingShow, allClosedPending, timers,
                   clipboard, registered, startSnapshot, sentAtStart>>

\* another application, or the user, puts text on the clipboard; the clipboard is
\* followed only while something of this process is going to read it
externalCopy(text) ==
    /\ appPhase # "exited"
    /\ timers # {} \/ pendingShow > 0
    /\ text # clipboard
    /\ clipboard' = text
    /\ UNCHANGED <<logs, calls, mainWindow, isQuitting, tray, clipboardMonitorInterval,
                   lastClipboardText, appPhase, windows, loading, windowsCreated, pendingShow,
                   allClosedPending, timers, registered, sent, tickLog, startSnapshot,
                   sentAtStart, ticks>>

(***************************************************************************)
(* Window and application lifecycle                                        *)
(***************************************************************************)
\* checkPlatformTools(), the branch of a Windows host
checkPlatformTools(buf) ==
    LoggerLog(buf, "info", "platform", <<"Windows detected. Using PowerShell + SendKeys.">>)

\* createTray(): trayOk is whether new Tray(icon) and the menu calls return
createTray(buf, trayOk) ==
    LET l1 == LoggerLog(buf, "info", "tray", <<"Creating system tray icon">>)
    IN  IF trayOk THEN LoggerLog(l1, "success", "tray", <<"system tray created successfully">>)
        ELSE LoggerLog(l1, "error", "tray", <<"Failed to create system tray">>)

\* the two log entries of createWindow()
createWindowLogs(buf) ==
    LoggerLog(LoggerLog(buf, "info", "startup", <<"Creating main window">>),
              "info", "startup", <<"os release, Node version">>)

\* app.whenReady().then(...)
appReady(trayOk) ==
    /\ appPhase = "starting"
    /\ appPhase' = "ready"
    /\ LET w == windowsCreated + 1
           l1 == LoggerLog(logs, "info", "startup", <<"Electron app ready, initializing">>)
           l2 == createWindowLogs(checkPlatformTools(l1))
       IN  /\ logs' = createTray(l2, trayOk)
           /\ mainWindow' = <<w>>
           /\ windows' = windows \cup {w}
           /\ loading' = loading \cup {w}
           /\ windowsCreated' = w
    /\ tray' = trayOk
    /\ UNCHANGED <<calls, isQuitting, clipboardMonitorInterval, lastClipboardText, pendingShow,
                   allClosedPending, timers, clipboard, registered, sent, tickLog,
                   startSnapshot, sentAtStart, ticks>>

\* app.on('activate') when no window is left: createWindow().  (With a window
\* left the handler only shows it again.)
activate ==
    /\ appPhase = "ready"
    /\ windows = {}
    /\ LET w == windowsCreated + 1
       IN  /\ logs' = createWindowLogs(logs)
           /\ mainWindow' = <<w>>
           /\ windows' = windows \cup {w}
           /\ loading' = loading \cup {w}
           /\ windowsCreated' = w
    /\ UNCHANGED <<calls, isQuitting, tray, clipboardMonitorInterval, lastClipboardText,
                   appPhase, pendingShow, allClosedPending, timers, clipboard, registered,
                   sent, tickLog, startSnapshot, sentAtStart, ticks>>

\* mainWindow.webContents.once('dom-ready'): log and set the 100 ms timeout
domReady(w) ==
    /\ w \in loading
    /\ loading' = loading \ {w}
    /\ pendingShow' = pendingShow + 1
    /\ logs' = LoggerLog(logs, "info", "startup", <<"DOM ready, showing window">>)
    /\ UNCHANGED <<calls, mainWindow, isQuitting, tray, clipboardMonitorInterval,
                   lastClipboardText, appPhase, windows, windowsCreated, allClosedPending,
                   timers, clipboard, registered, sent, tickLog, startSnapshot, sentAtStart,
                   ticks>>

\* the 100 ms timeout callback: mainWindow.show() throws a TypeError when
\* mainWindow is null, and the rest of the callback does not run
showTimeout(o, readOk) ==
    /\ pendingShow > 0
    /\ appPhase # "exited"
    /\ pendingShow' = pendingShow - 1
    /\ IF mainWindow = <<>>
       THEN UNCHANGED <<logs, clipboardMonitorInterval, lastClipboardText, timers, registered,
                        tickLog, startSnapshot, sentAtStart>>
       ELSE LET h == setupHotkeys(logs, o)
                m == startClipboardMonitoring([MonState EXCEPT !.logs = h.logs], readOk, clipboard)
            IN  /\ registered' = h.registered
                /\ clipboardMonitorInterval' = m.interval
                /\ timers' = m.timers
                /\ lastClipboardText' = m.last
                /\ logs' = LoggerLog(m.logs, "success", "startup", <<"application startup complete">>)
                /\ tickLog' = <<>>
                /\ startSnapshot' = m.last
                /\ sentAtStart' = Len(sent)
    /\ UNCHANGED <<calls, mainWindow, isQuitting, tray, appPhase, windows, loading,
                   windowsCreated, allClosedPending, clipboard, sent, ticks>>

\* app.on('before-quit')
beforeQuit(m) ==
    stopClipboardMonitoring(
        [m EXCEPT !.logs = LoggerLog(@, "info", "app", <<"App quitting, cleaning up">>)])

\* the tray's "Quit Oblysk" and the 'close-app' request: isQuitting = true; app.quit(),
\* which emits 'before-quit' and then closes the windows, or exits when there is none
quitApp ==
    /\ appPhase = "ready"
    /\ LET m == beforeQuit([MonState EXCEPT
                    !.logs = LoggerLog(@, "info", "app", <<"Quit requested">>)])
       IN  /\ logs' = m.logs
           /\ clipboardMonitorInterval' = m.interval
           /\ timers' = m.timers
    /\ isQuitting' = TRUE
    /\ registered' = {}
    /\ appPhase' = IF windows = {} THEN "exited" ELSE "quitting"
    /\ allClosedPending' = FALSE
    /\ UNCHANGED <<calls, mainWindow, tray, lastClipboardText, windows, loading,
                   windowsCreated, pendingShow, clipboard, sent, tickLog, startSnapshot,
                   sentAtStart, ticks>>

\* the 'closed' handler without its stopClipboardMonitoring() call
windowClosedKeepsMonitor(w) ==
    /\ w \in windows
    /\ appPhase \in {"ready", "quitting"}
    /\ logs' = LoggerLog(logs, "info", "window", <<"Main window closed">>)
    /\ mainWindow' = <<>>
    /\ windows' = windows \ {w}
    /\ loading' = loading \ {w}
    /\ appPhase' = IF appPhase = "quitting" /\ windows' = {} THEN "exited" ELSE appPhase
    /\ allClosedPending' = (appPhase = "ready" /\ windows' = {})
    /\ UNCHANGED <<calls, isQuitting, tray, clipboardMonitorInterval, timers,
                   lastClipboardText, windowsCreated, pendingShow, clipboard, registered,
                   sent, tickLog, startSnapshot, sentAtStart, ticks>>

\* mainWindow.on('closed') of window w; Electron emits it when w is destroyed: after
\* an unprevented 'close' (isQuitting), or with the window torn down by the system
windowClosed(w) ==
    /\ w \in windows
    /\ appPhase \in {"ready", "quitting"}
    /\ LET m == stopClipboardMonitoring([MonState EXCEPT
                    !.logs = LoggerLog(@, "info", "window", <<"Main window closed">>)])
       IN  /\ logs' = m.logs
           /\ clipboardMonitorInterval' = m.interval
           /\ timers' = m.timers
    /\ mainWindow' = <<>>
    /\ windows' = windows \ {w}
    /\ loading' = loading \ {w}
    /\ appPhase' = IF appPhase = "quitting" /\ windows' = {} THEN "exited" ELSE appPhase
    /\ allClosedPending' = (appPhase = "ready" /\ windows' = {})
    /\ UNCHANGED <<calls, isQuitting, tray, lastClipboardText, windowsCreated, pendingShow,
                   clipboard, registered, sent, tickLog, startSnapshot, sentAtStart, ticks>>

\* app.on('window-all-closed')
windowAllClosed ==
    /\ allClosedPending
    /\ appPhase = "ready"
    /\ allClosedPending' = FALSE
    /\ IF tray /\ ~isQuitting
       THEN /\ logs' = LoggerLog(logs, "info", "app", <<"All windows closed, staying in system tray">>)
            /\ UNCHANGED <<isQuitting, clipboardMonitorInterval, timers, registered, appPhase>>
       ELSE LET m == beforeQuit([MonState EXCEPT
                        !.logs = LoggerLog(@, "info", "app", <<"All windows closed, quitting">>)])
            IN  /\ logs' = m.logs
                /\ clipboardMonitorInterval' = m.interval
                /\ timers' = m.timers
                /\ isQuitting' = TRUE
                /\ registered' = {}
                /\ appPhase' = IF windows = {} THEN "exited" ELSE "quitting"
    /\ UNCHANGED <<calls, mainWindow, tray, lastClipboardText, windows, loading,
                   windowsCreated, pendingShow, clipboard, sent, tickLog, startSnapshot,
                   sentAtStart, ticks>>

(***************************************************************************)
(* Requests on the log buffer                                              *)
(***************************************************************************)
\* the levels of LogEntry
LogLevels == <<"debug", "info", "warn", "error", "success">>

\* getLogs() { return this.logs; }
getLogs(buf) == buf

\* ipcMain.on('renderer-log'): logData.level and logData.message are the renderer's
rendererLog(level, message) ==
    /\ logs' = LoggerLog(logs, level, "renderer", message)
    /\ inserted' = Append(inserted, [level |-> level, category |-> "renderer",
                                     message |-> message])
    /\ UNCHANGED <<calls, monVars, startHist, logsReply, winVars, dispVars, ipcVars>>

\* ipcMain.handle('get-main-process-logs'); the reply is kept with the number of
\* entries that had been logged when it was made
getMainProcessLogs ==
    /\ logsReply' = <<[n |-> Len(inserted), entries |-> getLogs(logs)]>>
    /\ UNCHANGED <<logs, calls, monVars, startHist, inserted, winVars, dispVars, ipcVars>>

(***************************************************************************)
(* Windows: PowerShell + SendKeys                                          *)
(***************************************************************************)
\* the ten characters escapeSendKeys has a case for
SendKeysSpecials == {"{", "}", "+", "^", "%", "~", "(", ")", "[", "]"}

\* escapeSendKeys(char): the characters of the string it returns
escapeSendKeys(char) ==
    CASE char = "{" -> <<"{", "{">>
      [] char = "}" -> <<"}", "}">>
      [] char = "+" -> <<"{", "+", "}">>
      [] char = "^" -> <<"{", "^", "}">>
      [] char = "%" -> <<"{", "%", "}">>
      [] char = "~" -> <<"{", "~", "}">>
      [] char = "(" -> <<"{", "(", "}">>
      [] char = ")" -> <<"{", ")", "}">>
      [] char = "[" -> <<"{", "[", "}">>
      [] char = "]" -> <<"{", "]", "}">>
      [] OTHER -> <<char>>

\* for (const char of batch) escapedBatch += escapeSendKeys(char)
RECURSIVE EscapeBatch(_)
EscapeBatch(batch) ==
    IF batch = <<>> THEN <<>>
    ELSE escapeSendKeys(Head(batch)) \o EscapeBatch(Tail(batch))

\* String.prototype.replace with a one-character global pattern
RECURSIVE ReplaceAll(_, _, _)
ReplaceAll(s, char, by) ==
    IF s = <<>> THEN <<>>
    ELSE IF Len(s) = 1 THEN (IF s[1] = char THEN by ELSE s)
    ELSE LET half == Len(s) \div 2
         IN  ReplaceAll(SubSeq(s, 1, half), char, by)
             \o ReplaceAll(SubSeq(s, half + 1, Len(s)), char, by)

\* the replace left out
DoubleQuotesNone(s) == s

\* s.replace(/'/g, "''")
DoubleQuotes(s) == ReplaceAll(s, "'", <<"'", "'">>)

MathMin(a, b) == IF a < b THEN a ELSE b
MathMax(a, b) == IF a > b THEN a ELSE b

\* the batch size without the upper limit
batchSizeNoCap(delay) == MathMax(1, 200 \div delay)

\* Math.max(1, Math.min(20, Math.floor(200 / delay))), for a delay of 1 or more
batchSize(delay) == MathMax(1, MathMin(20, 200 \div delay))

\* the slice with one character more at its end
SliceOneMore(text, from, to) == SubSeq(text, from + 1, MathMin(to + 1, Len(text)))

\* text.slice(from, to), 0 <= from <= to
Slice(text, from, to) == SubSeq(text, from + 1, MathMin(to, Len(text)))

\* the command line of one batch, given to exec
SendWaitCmd(safeEscapedBatch) ==
    <<"powershell -Command \"Add-Type -AssemblyName System.Windows.Forms; [System.Windows.Forms.SendKeys]::SendWait(", "'">>
    \o safeEscapedBatch \o <<"'", ")\"">>

\* no simulateKeystrokesWindows call yet.  timers counts the pending
\* setTimeout(processNextBatch); inflight holds the exec calls whose callback has
\* not run, by their number in execs.  execs and events are history: the exec
\* calls made, and the exec calls and callbacks in the order they happened
NoKeys ==
    [started |-> FALSE, text |-> <<>>, delay |-> 0, requestId |-> "", batchSize |-> 0,
     index |-> 0, errors |-> <<>>, timers |-> 0, inflight |-> {},
     resolves |-> <<>>, execs |-> <<>>, events |-> <<>>]

\* the value passed to resolve() when the text is used up
KeysResult(errors) ==
    [success |-> (Len(errors) = 0),
     message |-> IF Len(errors) = 0 THEN <<"Keystrokes completed">>
                 ELSE <<"Completed with errors", Len(errors)>>,
     errors |-> IF Len(errors) > 0 THEN <<errors>> ELSE <<>>]

\* simulateKeystrokesWindows(text, delay, requestId) up to setTimeout(processNextBatch, 200)
simulateKeystrokesWindows(text, delay, requestId) ==
    /\ ~typing.started
    /\ logs' = LoggerLog(logs, "info", "paste", <<"Using Windows SendKeys simulation", requestId>>)
    /\ typing' = [NoKeys EXCEPT !.started = TRUE, !.text = text, !.delay = delay,
                              !.requestId = requestId, !.batchSize = batchSize(delay),
                              !.timers = 1]
    /\ UNCHANGED <<calls, monVars, obsVars, shellCommand, dispVars, ipcVars>>

\* processNextBatch with the timer left armed (setInterval for setTimeout)
processNextBatchRepeating ==
    /\ typing.timers > 0
    /\ IF typing.index >= Len(typing.text)
       THEN typing' = [typing EXCEPT !.timers = @ - 1,
                                 !.resolves = Append(@, KeysResult(typing.errors))]
       ELSE LET batch == Slice(typing.text, typing.index, typing.index + typing.batchSize)
                escapedBatch == EscapeBatch(batch)
                safeEscapedBatch == DoubleQuotes(escapedBatch)
                n == Len(typing.execs) + 1
            IN  typing' = [typing EXCEPT
                    !.execs = Append(@, [pos |-> typing.index, batch |-> batch,
                                         escaped |-> escapedBatch,
                                         cmd |-> SendWaitCmd(safeEscapedBatch)]),
                    !.inflight = @ \cup {n},
                    !.events = Append(@, [type |-> "exec", n |-> n, error |-> <<>>])]
    /\ UNCHANGED <<logs, calls, monVars, obsVars, shellCommand, dispVars, ipcVars>>

\* processNextBatch(), the callback of the warm-up and of the pause timers
processNextBatch ==
    /\ typing.timers > 0
    /\ IF typing.index >= Len(typing.text)
       THEN typing' = [typing EXCEPT !.timers = @ - 1,
                                 !.resolves = Append(@, KeysResult(typing.errors))]
       ELSE LET batch == Slice(typing.text, typing.index, typing.index + typing.batchSize)
                escapedBatch == EscapeBatch(batch)
                safeEscapedBatch == DoubleQuotes(escapedBatch)
                n == Len(typing.execs) + 1
            IN  typing' = [typing EXCEPT
                    !.timers = @ - 1,
                    !.execs = Append(@, [pos |-> typing.index, batch |-> batch,
                                         escaped |-> escapedBatch,
                                         cmd |-> SendWaitCmd(safeEscapedBatch)]),
                    !.inflight = @ \cup {n},
                    !.events = Append(@, [type |-> "exec", n |-> n, error |-> <<>>])]
    /\ UNCHANGED <<logs, calls, monVars, obsVars, shellCommand, dispVars, ipcVars>>

\* the exec callback giving up at the first failed batch
execCallbackAborts(n, error) ==
    /\ n \in typing.inflight
    /\ typing' = [typing EXCEPT
            !.inflight = @ \ {n},
            !.errors = IF error # <<>>
                       THEN Append(@, <<"Position", typing.index, error[1]>>) ELSE @,
            !.index = IF error # <<>> THEN Len(typing.text) ELSE @ + typing.batchSize,
            !.timers = @ + 1,
            !.events = Append(@, [type |-> "callback", n |-> n, error |-> error])]
    /\ logs' = IF error # <<>>
               THEN LoggerLog(logs, "warn", "paste",
                              <<"Batch error at position", typing.requestId, typing.index>>)
               ELSE logs
    /\ UNCHANGED <<calls, monVars, obsVars, shellCommand, dispVars, ipcVars>>

\* the exec callback setting the next timer only when the batch went through
execCallbackStopsOnError(n, error) ==
    /\ n \in typing.inflight
    /\ typing' = [typing EXCEPT
            !.inflight = @ \ {n},
            !.errors = IF error # <<>>
                       THEN Append(@, <<"Position", typing.index, error[1]>>) ELSE @,
            !.index = @ + typing.batchSize,
            !.timers = IF error # <<>> THEN @ ELSE @ + 1,
            !.events = Append(@, [type |-> "callback", n |-> n, error |-> error])]
    /\ logs' = IF error # <<>>
               THEN LoggerLog(logs, "warn", "paste",
                              <<"Batch error at position", typing.requestId, typing.index>>)
               ELSE logs
    /\ UNCHANGED <<calls, monVars, obsVars, shellCommand, dispVars, ipcVars>>

\* the callback of exec call n; error is <<>> (null) or <<error.message>>
execCallback(n, error) ==
    /\ n \in typing.inflight
    /\ typing' = [typing EXCEPT
            !.inflight = @ \ {n},
            !.errors = IF error # <<>>
                       THEN Append(@, <<"Position", typing.index, error[1]>>) ELSE @,
            !.index = @ + typing.batchSize,
            !.timers = @ + 1,
            !.events = Append(@, [type |-> "callback", n |-> n, error |-> error])]
    /\ logs' = IF error # <<>>
               THEN LoggerLog(logs, "warn", "paste",
                              <<"Batch error at position", typing.requestId, typing.index>>)
               ELSE logs
    /\ UNCHANGED <<calls, monVars, obsVars, shellCommand, dispVars, ipcVars>>

\* the loop of pasteViaShellWindows: '\n' becomes {ENTER}, '\r' is skipped
RECURSIVE ShellEscape(_)
ShellEscape(text) ==
    IF text = <<>> THEN <<>>
    ELSE (CASE Head(text) = "\n" -> <<"{", "E", "N", "T", "E", "R", "}">>
            [] Head(text) = "\r" -> <<>>
            [] OTHER -> escapeSendKeys(Head(text)))
         \o ShellEscape(Tail(text))

\* the -Command argument pasteViaShellWindows builds
ShellPasteCommand(escapedText) ==
    <<"Add-Type -AssemblyName System.Windows.Forms; [System.Windows.Forms.SendKeys]::SendWait(", "'">>
    \o escapedText \o <<"'", ")">>

\* pasteViaShellWindows(text, requestId) up to its await
pasteViaShellWindows(c, text, requestId) ==
    /\ executeCommand(c, "powershell", 10000, requestId)
    /\ LET escapedText == ShellEscape(text)
       IN  shellCommand' = <<[text |-> text, escaped |-> escapedText,
                              command |-> ShellPasteCommand(DoubleQuotes(escapedText))]>>
    /\ UNCHANGED <<monVars, obsVars, typing, dispVars, ipcVars>>

(***************************************************************************)
(* Platform detection                                                      *)
(***************************************************************************)
PLATFORM_NAME ==
    IF PLATFORM = "win32" THEN "Windows" ELSE IF PLATFORM = "darwin" THEN "macOS" ELSE "Linux"

IS_WINDOWS == PLATFORM = "win32"
IS_MAC == PLATFORM = "darwin"

\* hasCommand(cmd): whether `which cmd` exits with 0
hasCommand(cmd) == cmd \in installed

(***************************************************************************)
(* The platform paste functions.  Each is given as what one run of it,     *)
(* from its call or from the await it resumes at up to its next await or   *)
(* its return, does: the entries it logs, the outcomes of its              *)
(* clipboard.writeText calls, the hasCommand calls it makes and how it     *)
(* ends (next).                                                            *)
(***************************************************************************)
Entry(level, category, message) ==
    [level |-> level, category |-> category, message |-> message]

\* logger.log for each entry, in order
RECURSIVE LogAll(_, _)
LogAll(buf, entries) ==
    IF entries = <<>> THEN buf
    ELSE LogAll(LoggerLog(buf, Head(entries).level, Head(entries).category,
                          Head(entries).message), Tail(entries))

Ran(entries, writes, probed, next) ==
    [entries |-> entries, writes |-> writes, probes |-> probed, next |-> next]

\* await executeCommand(command, args, timeoutMs, requestId), then
\* return { ...result, method }
Spawn(command, args, timeoutMs, method) ==
    [kind |-> "spawn", command |-> command, args |-> args, timeoutMs |-> timeoutMs,
     method |-> method]

\* await new Promise(resolve => setTimeout(resolve, 100)) inside fn
Settle(fn) == [kind |-> "settle", fn |-> fn]

\* return result, with no await before it
Return(result) == [kind |-> "return", result |-> result]

\* an exception leaves the function: its promise is rejected
Throw(message) == [kind |-> "throw", message |-> message]

\* the promise of simulateKeystrokesWindows, resolved by processNextBatch
AwaitTyping == [kind |-> "typing"]

\* error.message of a clipboard.writeText that throws
WriteError == "clipboard write failed"

\* String(delay)
String(delay) ==
    CASE delay = 10 -> "10"
      [] delay = 12 -> "12"
      [] delay = 50 -> "50"

\* spawn(command, args, { shell: true }): the command line handed to the shell
\* is the command and the arguments joined with spaces.  An argument is the
\* sequence of its characters; an argument the program writes as a constant is
\* one token
RECURSIVE ShellLine(_, _)
ShellLine(command, args) ==
    IF args = <<>> THEN <<command>>
    ELSE ShellLine(command, SubSeq(args, 1, Len(args) - 1)) \o <<" ">> \o args[Len(args)]

\* Windows
\* simulateKeystrokesWindows up to the promise it returns
simulateKeystrokesWindowsStart(text, delay, requestId) ==
    Ran(<<Entry("info", "paste", <<"Using Windows SendKeys simulation", requestId>>)>>,
        <<>>, <<>>, AwaitTyping)

\* the settle delay without the write before it
SettleWithoutWrite(fn, writeOk) == Ran(<<>>, <<>>, <<>>, Settle(fn))

\* clipboard.writeText(text), then the settle delay
WriteThenSettle(fn, writeOk) ==
    IF writeOk THEN Ran(<<>>, <<TRUE>>, <<>>, Settle(fn))
    ELSE Ran(<<>>, <<FALSE>>, <<>>, Throw(WriteError))

pasteViaClipboardWindows(text, requestId, writeOk) ==
    WriteThenSettle("pasteViaClipboardWindows", writeOk)

\* pasteViaClipboardWindows after the settle delay
pasteViaClipboardWindowsResume(requestId) ==
    Ran(<<>>, <<>>, <<>>,
        Spawn("powershell",
              << <<"-Command">>,
                 <<"Add-Type -AssemblyName System.Windows.Forms; [System.Windows.Forms.SendKeys]::SendWait(\"^v\")">> >>,
              3000, "clipboard"))

\* pasteViaShellWindows as a run
pasteViaShellWindowsStart(text, requestId) ==
    Ran(<<>>, <<>>, <<>>,
        Spawn("powershell",
              << <<"-Command">>, ShellPasteCommand(DoubleQuotes(ShellEscape(text))) >>,
              10000, "powershell"))

\* Linux
\* the tool simulateKeystrokesLinux types with, "" when it finds none
\* (with xdotool tried before wtype)
LinuxTypingToolXdotoolFirst ==
    IF hasCommand("xdotool") THEN "xdotool"
    ELSE IF linuxDisplayServer = "wayland" /\ hasCommand("wtype") THEN "wtype"
    ELSE IF hasCommand("ydotool") THEN "ydotool"
    ELSE ""

\* the tool simulateKeystrokesLinux types with, "" when it finds none
LinuxTypingTool ==
    IF linuxDisplayServer = "wayland" /\ hasCommand("wtype") THEN "wtype"
    ELSE IF hasCommand("xdotool") THEN "xdotool"
    ELSE IF hasCommand("ydotool") THEN "ydotool"
    ELSE ""

\* the hasCommand calls of simulateKeystrokesLinux, in order
LinuxTypingProbes ==
    LET first == IF linuxDisplayServer = "wayland" THEN <<"wtype">> ELSE <<>>
    IN  IF linuxDisplayServer = "wayland" /\ hasCommand("wtype") THEN first
        ELSE IF hasCommand("xdotool") THEN first \o <<"xdotool">>
        ELSE first \o <<"xdotool", "ydotool">>

\* the argument array of the typing tool
LinuxTypingArgs(tool, delay, text) ==
    CASE tool = "wtype" -> << <<"-d">>, <<String(delay)>>, <<"--">>, text >>
      [] tool = "xdotool" ->
            << <<"type">>, <<"--delay">>, <<String(delay)>>, <<"--clearmodifiers">>, <<"--">>, text >>
      [] tool = "ydotool" ->
            << <<"type">>, <<"--key-delay">>, <<String(delay)>>, <<"--">>, text >>

\* the result without a tool, as an exception
NoTypingToolThrows == Throw("No typing tool found")

\* the result of simulateKeystrokesLinux without a tool
NoTypingTool ==
    Return([success |-> FALSE,
            error |-> <<"No typing tool found. Install xdotool (X11) or wtype (Wayland): sudo apt install xdotool wtype">>])

simulateKeystrokesLinux(text, delay, requestId) ==
    Ran(<<Entry("info", "paste",
                <<"Using Linux keystroke simulation", requestId, linuxDisplayServer>>)>>,
        <<>>, LinuxTypingProbes,
        IF LinuxTypingTool = "" THEN NoTypingTool
        ELSE Spawn(LinuxTypingTool, LinuxTypingArgs(LinuxTypingTool, delay, text),
                   30000, LinuxTypingTool))

pasteViaClipboardLinux(text, requestId, writeOk) ==
    WriteThenSettle("pasteViaClipboardLinux", writeOk)

\* the result of pasteViaClipboardLinux without a tool
NoKeyTool ==
    Return([success |-> FALSE,
            error |-> <<"No key simulation tool found. Install xdotool or wtype.">>])

\* pasteViaClipboardLinux after the settle delay
pasteViaClipboardLinuxResume(requestId) ==
    IF linuxDisplayServer = "wayland" /\ hasCommand("wtype")
    THEN Ran(<<>>, <<>>, <<"wtype">>,
             Spawn("wtype", << <<"-M">>, <<"ctrl">>, <<"-k">>, <<"v">>, <<"-m">>, <<"ctrl">> >>,
                   3000, "clipboard"))
    ELSE LET first == IF linuxDisplayServer = "wayland" THEN <<"wtype">> ELSE <<>>
         IN  IF hasCommand("xdotool")
             THEN Ran(<<>>, <<>>, first \o <<"xdotool">>,
                      Spawn("xdotool", << <<"key">>, <<"--clearmodifiers">>, <<"ctrl+v">> >>,
                            3000, "clipboard"))
             ELSE Ran(<<>>, <<>>, first \o <<"xdotool">>, NoKeyTool)

\* On Linux the "shell paste" method is the same as keystroke simulation
pasteViaShellLinux(text, requestId) == simulateKeystrokesLinux(text, 12, requestId)

\* macOS
\* the length test with >= for >
TooLongFrom200(text) == Len(text) >= 200

\* if (text.length > 200)
TooLong(text) == Len(text) > 200

\* the escaping with the two replacements in the other order
escapeAppleScriptQuoteFirst(text) ==
    ReplaceAll(ReplaceAll(text, "\"", <<"\\", "\"">>), "\\", <<"\\", "\\">>)

\* text.replace(/\\/g, '\\\\').replace(/"/g, '\\"')
escapeAppleScript(text) ==
    ReplaceAll(ReplaceAll(text, "\\", <<"\\", "\\">>), "\"", <<"\\", "\"">>)

\* `tell application "System Events" to keystroke "${escaped}"`
KeystrokeScript(escaped) ==
    <<"tell application \"System Events\" to keystroke ", "\"">> \o escaped \o <<"\"">>

pasteViaClipboardMac(text, requestId, writeOk) ==
    WriteThenSettle("pasteViaClipboardMac", writeOk)

\* pasteViaClipboardMac after the settle delay
pasteViaClipboardMacResume(requestId) ==
    Ran(<<>>, <<>>, <<>>,
        Spawn("osascript",
              << <<"-e">>,
                 <<"tell application \"System Events\" to keystroke \"v\" using command down">> >>,
              3000, "clipboard"))

simulateKeystrokesMac(text, delay, requestId, writeOk) ==
    LET using == Entry("info", "paste", <<"Using macOS osascript simulation", requestId>>)
        long == Entry("info", "paste",
                      <<"Text too long for keystroke, using clipboard paste", requestId>>)
        paste == pasteViaClipboardMac(text, requestId, writeOk)
    IN  IF TooLong(text)
        THEN [paste EXCEPT !.entries = <<using, long>> \o @]
        ELSE Ran(<<using>>, <<>>, <<>>,
                 Spawn("osascript", << <<"-e">>, KeystrokeScript(escapeAppleScript(text)) >>,
                       10000, "osascript-keystroke"))

\* On macOS the "shell paste" uses clipboard + Cmd+V
pasteViaShellMac(text, requestId, writeOk) == pasteViaClipboardMac(text, requestId, writeOk)

\* Platform dispatchers
simulateKeystrokes(text, delay, requestId, writeOk) ==
    IF IS_WINDOWS THEN simulateKeystrokesWindowsStart(text, delay, requestId)
    ELSE IF IS_MAC THEN simulateKeystrokesMac(text, delay, requestId, writeOk)
    ELSE simulateKeystrokesLinux(text, delay, requestId)

pasteViaClipboard(text, requestId, writeOk) ==
    IF IS_WINDOWS THEN pasteViaClipboardWindows(text, requestId, writeOk)
    ELSE IF IS_MAC THEN pasteViaClipboardMac(text, requestId, writeOk)
    ELSE pasteViaClipboardLinux(text, requestId, writeOk)

pasteViaShell(text, requestId, writeOk) ==
    IF IS_WINDOWS THEN pasteViaShellWindowsStart(text, requestId)
    ELSE IF IS_MAC THEN pasteViaShellMac(text, requestId, writeOk)
    ELSE pasteViaShellLinux(text, requestId)

\* the rest of the function suspended at the settle delay
ResumeAfterSettle(fn, requestId) ==
    CASE fn = "pasteViaClipboardWindows" -> pasteViaClipboardWindowsResume(requestId)
      [] fn = "pasteViaClipboardMac" -> pasteViaClipboardMacResume(requestId)
      [] fn = "pasteViaClipboardLinux" -> pasteViaClipboardLinuxResume(requestId)

(***************************************************************************)
(* The 'paste-powershell' handler of the earlier main process              *)
(* (src/unnamed/part_000): the text goes into a double-quoted string       *)
(***************************************************************************)
\* the character U+0060 (grave accent), which a string of this language cannot hold
Backtick == "grave"

\* .replace(/\r?\n/g, '{ENTER}')
RECURSIVE ReplaceNewlines(_)
ReplaceNewlines(s) ==
    IF s = <<>> THEN <<>>
    ELSE IF Head(s) = "\n"
         THEN <<"{", "E", "N", "T", "E", "R", "}">> \o ReplaceNewlines(Tail(s))
    ELSE IF Head(s) = "\r" /\ Len(s) >= 2 /\ s[2] = "\n"
         THEN <<"{", "E", "N", "T", "E", "R", "}">> \o ReplaceNewlines(Tail(Tail(s)))
    ELSE <<Head(s)>> \o ReplaceNewlines(Tail(s))

\* const escapedText = text.replace(...)...: the seven replacements, in order
escapedTextPowerShell(text) ==
    LET r1 == ReplaceAll(text, "\\", <<"\\", "\\">>)
        r2 == ReplaceAll(r1, "\"", <<"\"", "\"">>)
        r3 == ReplaceAll(r2, Backtick, <<Backtick, Backtick>>)
        r4 == ReplaceAll(r3, "$", <<Backtick, "$">>)
        r5 == ReplaceAll(r4, "[", <<Backtick, "[">>)
        r6 == ReplaceAll(r5, "]", <<Backtick, "]">>)
    IN  ReplaceNewlines(r6)

\* the -Command argument: ...SendWait("${escapedText}")
PowerShellPasteCommand(escapedText) ==
    <<"Add-Type -AssemblyName System.Windows.Forms; [System.Windows.Forms.SendKeys]::SendWait(", "\"">>
    \o escapedText \o <<"\"", ")">>

\* the handler up to its await, as a run
pastePowershellDoubleQuoted(text, requestId) ==
    Ran(<<>>, <<>>, <<>>,
        Spawn("powershell",
              << <<"-Command">>, PowerShellPasteCommand(escapedTextPowerShell(text)) >>,
              10000, "powershell"))

(***************************************************************************)
(* The dispatch handlers: ipcMain.handle('simulate-keystrokes'),           *)
(* ('paste-via-clipboard') and ('paste-powershell')                        *)
(***************************************************************************)
\* no request yet.  stage is where the handler is: "idle", "settling" (the
\* settle delay of fn), "awaiting" (executeCommand), "typing" (the promise of
\* simulateKeystrokesWindows) or "done".  spawned holds the executeCommand call
\* made; reply the value the handler returned.  events is history: the
\* clipboard writes, the settle delay and the executeCommand call, in order
NoRequest ==
    [channel |-> "", text |-> <<>>, delay |-> 0, requestId |-> "", stage |-> "idle",
     fn |-> "", method |-> "", spawned |-> <<>>, events |-> <<>>, reply |-> <<>>]

\* { ...r, ...e }
Merge(r, e) == [k \in (DOMAIN r) \cup (DOMAIN e) |-> IF k \in DOMAIN e THEN e[k] ELSE r[k]]

\* const methodName = IS_WINDOWS ? 'PowerShell' : IS_MAC ? 'osascript' : 'shell'
methodName == IF IS_WINDOWS THEN "PowerShell" ELSE IF IS_MAC THEN "osascript" ELSE "shell"

\* methodName.toLowerCase()
methodNameLower == IF IS_WINDOWS THEN "powershell" ELSE IF IS_MAC THEN "osascript" ELSE "shell"

\* the entry logged after the await
CompletedEntry(channel, requestId) ==
    CASE channel = "simulate-keystrokes" ->
            Entry("success", "paste", <<"Keystroke simulation completed", requestId>>)
      [] channel = "paste-via-clipboard" ->
            Entry("success", "paste", <<"Clipboard paste completed", requestId>>)
      [] channel = "paste-powershell" ->
            Entry("success", "paste", <<"paste completed", requestId, methodName>>)

\* the entry logged by the catch block
FailedEntry(channel, requestId) ==
    CASE channel = "simulate-keystrokes" ->
            Entry("error", "paste", <<"Keystroke simulation failed", requestId>>)
      [] channel = "paste-via-clipboard" ->
            Entry("error", "paste", <<"Clipboard paste failed", requestId>>)
      [] channel = "paste-powershell" ->
            Entry("error", "paste", <<"paste failed", requestId, methodName>>)

\* the value returned after the await; the number of milliseconds in duration
\* is not modelled
Returned(channel, result, requestId) ==
    IF channel = "simulate-keystrokes"
    THEN Merge(result, [duration |-> "ms", requestId |-> requestId, platform |-> PLATFORM_NAME])
    ELSE Merge(result, [requestId |-> requestId, platform |-> PLATFORM_NAME])

\* the handler without its try/catch: the exception leaves the handler
CaughtNot(channel, message, requestId) ==
    [rejected |-> TRUE, error |-> <<message>>]

\* the value returned by the catch block
Caught(channel, message, requestId) ==
    CASE channel = "simulate-keystrokes" ->
            [success |-> FALSE, error |-> <<message>>, requestId |-> requestId,
             platform |-> PLATFORM_NAME]
      [] channel = "paste-via-clipboard" ->
            [success |-> FALSE, error |-> <<message>>, method |-> "clipboard",
             requestId |-> requestId, platform |-> PLATFORM_NAME]
      [] channel = "paste-powershell" ->
            [success |-> FALSE, error |-> <<message>>, method |-> methodNameLower,
             requestId |-> requestId, platform |-> PLATFORM_NAME]

\* the variables no dispatch handler changes
hostVars == <<mainWindow, isQuitting, tray, clipboardMonitorInterval, lastClipboardText,
              appPhase, windows, loading, windowsCreated, pendingShow, allClosedPending,
              timers, registered, sent, tickLog, startSnapshot, sentAtStart, ticks,
              obsVars, shellCommand, PLATFORM, linuxDisplayServer, installed, ipcVars>>

\* the handler of request req runs on: it logs pre and makes the clipboard
\* writes ownWrites itself, then the platform function runs as `run`, up to the
\* next await (executeCommand, the settle delay, the typing promise) or to the
\* handler's return
Advance(req, pre, ownWrites, run) ==
    LET next == run.next
        writes == [i \in DOMAIN ownWrites |-> IF ownWrites[i] THEN "handlerWrite"
                                            ELSE "handlerWriteThrew"]
                  \o [i \in DOMAIN run.writes |-> IF run.writes[i] THEN "write"
                                                  ELSE "writeThrew"]
        wrote == \E i \in DOMAIN writes : writes[i] \in {"handlerWrite", "write"}
        entries ==
            pre \o run.entries \o
            (CASE next.kind = "spawn" ->
                    <<Entry("info", "command", <<"Executing", req.requestId, next.command>>)>>
               [] next.kind = "return" -> <<CompletedEntry(req.channel, req.requestId)>>
               [] next.kind = "throw" -> <<FailedEntry(req.channel, req.requestId)>>
               [] OTHER -> <<>>)
    IN  /\ logs' = LogAll(logs, entries)
        /\ clipboard' = IF wrote THEN req.text ELSE clipboard
        /\ probes' = probes \o run.probes
        /\ calls' = IF next.kind = "spawn"
                    THEN [calls EXCEPT ![1] =
                            [NoCall EXCEPT !.started = TRUE, !.command = next.command,
                                           !.timeoutMs = next.timeoutMs,
                                           !.requestId = req.requestId, !.timer = "armed"]]
                    ELSE calls
        /\ typing' = IF next.kind = "typing"
                     THEN [NoKeys EXCEPT !.started = TRUE, !.text = req.text,
                                         !.delay = req.delay, !.requestId = req.requestId,
                                         !.batchSize = batchSize(req.delay), !.timers = 1]
                     ELSE typing
        /\ request' = [req EXCEPT
                !.stage = CASE next.kind = "spawn" -> "awaiting"
                            [] next.kind = "settle" -> "settling"
                            [] next.kind = "typing" -> "typing"
                            [] OTHER -> "done",
                !.fn = IF next.kind = "settle" THEN next.fn ELSE @,
                !.method = IF next.kind = "spawn" THEN next.method ELSE @,
                !.spawned = IF next.kind = "spawn"
                            THEN <<[command |-> next.command, args |-> next.args,
                                    line |-> ShellLine(next.command, next.args),
                                    timeoutMs |-> next.timeoutMs]>>
                            ELSE @,
                !.events = @ \o writes \o
                           (CASE next.kind = "spawn" -> <<"spawn">>
                              [] next.kind = "settle" -> <<"settleStart">>
                              [] OTHER -> <<>>),
                !.reply = CASE next.kind = "return" ->
                                <<Returned(req.channel, next.result, req.requestId)>>
                            [] next.kind = "throw" ->
                                <<Caught(req.channel, next.message, req.requestId)>>
                            [] OTHER -> @]
        /\ UNCHANGED hostVars

\* no handler has been called, no process started
Idle == request.stage = "idle" /\ ~calls[1].started /\ ~typing.started

\* ipcMain.handle('simulate-keystrokes', ...)
handleSimulateKeystrokes(text, delay, requestId, writeOk) ==
    /\ Idle
    /\ Advance([NoRequest EXCEPT !.channel = "simulate-keystrokes", !.text = text,
                                 !.delay = delay, !.requestId = requestId],
               <<Entry("info", "paste", <<"Keystroke simulation", requestId, Len(text), delay>>)>>,
               <<>>,
               simulateKeystrokes(text, delay, requestId, writeOk))

\* ipcMain.handle('paste-via-clipboard', ...): the handler writes the clipboard
\* itself (handlerWriteOk) before it calls pasteViaClipboard
handlePasteViaClipboard(text, requestId, handlerWriteOk, writeOk) ==
    /\ Idle
    /\ Advance([NoRequest EXCEPT !.channel = "paste-via-clipboard", !.text = text,
                                 !.requestId = requestId],
               <<Entry("info", "paste", <<"Clipboard paste", requestId, Len(text)>>)>>
               \o (IF handlerWriteOk
                   THEN <<Entry("info", "paste", <<"Clipboard content set", requestId>>)>>
                   ELSE <<>>),
               <<handlerWriteOk>>,
               IF handlerWriteOk THEN pasteViaClipboard(text, requestId, writeOk)
               ELSE Ran(<<>>, <<>>, <<>>, Throw(WriteError)))

\* ipcMain.handle('paste-powershell', ...)
handlePastePowershell(text, requestId, writeOk) ==
    /\ Idle
    /\ Advance([NoRequest EXCEPT !.channel = "paste-powershell", !.text = text,
                                 !.requestId = requestId],
               <<Entry("info", "paste", <<"paste", requestId, methodName, Len(text)>>)>>,
               <<>>,
               pasteViaShell(text, requestId, writeOk))

\* ipcMain.handle('paste-powershell', ...) of src/unnamed/part_000
handlePastePowershellDoubleQuoted(text, requestId) ==
    /\ Idle
    /\ Advance([NoRequest EXCEPT !.channel = "paste-powershell", !.text = text,
                                 !.requestId = requestId],
               <<Entry("info", "paste", <<"paste", requestId, methodName, Len(text)>>)>>,
               <<>>,
               pastePowershellDoubleQuoted(text, requestId))


\* the 100 ms timer of the settle delay fires: the paste function goes on
settleElapsed ==
    /\ request.stage = "settling"
    /\ Advance([request EXCEPT !.events = Append(@, "settleElapsed")], <<>>, <<>>,
               ResumeAfterSettle(request.fn, request.requestId))

\* the promise the handler awaits has been resolved: its continuation is the
\* next thing to run
Resumable ==
    \/ request.stage = "awaiting" /\ calls[1].resolves # <<>>
    \/ request.stage = "typing" /\ typing.resolves # <<>>

\* the handler after its await: return { ...result, ... }
handlerReturn ==
    /\ Resumable
    /\ LET result == IF request.stage = "awaiting"
                     THEN Merge(calls[1].resolves[1], [method |-> request.method])
                     ELSE typing.resolves[1]
       IN  /\ logs' = LogAll(logs, <<CompletedEntry(request.channel, request.requestId)>>)
           /\ request' = [request EXCEPT
                   !.stage = "done",
                   !.reply = <<Returned(request.channel, result, request.requestId)>>]
    /\ UNCHANGED <<calls, monVars, obsVars, winVars, PLATFORM, linuxDisplayServer,
                   installed, probes, ipcVars>>

(***************************************************************************)
(* Requests that overlap: each call of a handler has its own requestId,    *)
(* and each simulateKeystrokesWindows call its own closure (batchSize,     *)
(* index, errors, processNextBatch)                                        *)
(***************************************************************************)
\* a 'simulate-keystrokes' request not made yet: the closure of its
\* simulateKeystrokesWindows call, and the value its handler returned
NoTyping == [closure |-> NoKeys, reply |-> <<>>]

\* processNextBatch() of closure t
processNextBatchOf(t) ==
    IF t.index >= Len(t.text)
    THEN [t EXCEPT !.timers = @ - 1, !.resolves = Append(@, KeysResult(t.errors))]
    ELSE LET batch == Slice(t.text, t.index, t.index + t.batchSize)
             escapedBatch == EscapeBatch(batch)
             safeEscapedBatch == DoubleQuotes(escapedBatch)
             n == Len(t.execs) + 1
         IN  [t EXCEPT
                 !.timers = @ - 1,
                 !.execs = Append(@, [pos |-> t.index, batch |-> batch,
                                      escaped |-> escapedBatch,
                                      cmd |-> SendWaitCmd(safeEscapedBatch)]),
                 !.inflight = @ \cup {n},
                 !.events = Append(@, [type |-> "exec", n |-> n, error |-> <<>>])]

\* the callback of exec call n of closure t
execCallbackOf(t, n, error) ==
    [t EXCEPT
        !.inflight = @ \ {n},
        !.errors = IF error # <<>> THEN Append(@, <<"Position", t.index, error[1]>>) ELSE @,
        !.index = @ + t.batchSize,
        !.timers = @ + 1,
        !.events = Append(@, [type |-> "callback", n |-> n, error |-> error])]

\* the variables a 'simulate-keystrokes' request leaves alone
besideTypings == <<calls, monVars, obsVars, winVars, dispVars, hotkeyReport, hotkeyTest,
                   bridge, pastes>>

\* ipcMain.handle('simulate-keystrokes', ...) of request r on Windows, up to
\* the await: simulateKeystrokesWindows has set the 200 ms timer
simulateKeystrokesRequest(r, text, delay) ==
    /\ ~typings[r].closure.started
    /\ logs' = LogAll(logs,
                      <<Entry("info", "paste", <<"Keystroke simulation", r, Len(text), delay>>),
                        Entry("info", "paste", <<"Using Windows SendKeys simulation", r>>)>>)
    /\ typings' = [typings EXCEPT ![r].closure =
                        [NoKeys EXCEPT !.started = TRUE, !.text = text, !.delay = delay,
                                       !.requestId = r, !.batchSize = batchSize(delay),
                                       !.timers = 1]]
    /\ UNCHANGED besideTypings

\* processNextBatch() of request r; when it resolves, the handler goes on after
\* its await: it logs and returns
processNextBatchIn(r) ==
    /\ typings[r].closure.timers > 0
    /\ LET t == processNextBatchOf(typings[r].closure)
           resolved == t.resolves # <<>>
       IN  /\ typings' = [typings EXCEPT
                    ![r].closure = t,
                    ![r].reply = IF resolved
                                 THEN <<Returned("simulate-keystrokes", t.resolves[1], r)>>
                                 ELSE @]
           /\ logs' = IF resolved
                      THEN LogAll(logs, <<CompletedEntry("simulate-keystrokes", r)>>)
                      ELSE logs
    /\ UNCHANGED besideTypings

\* the exec callback with errors declared outside simulateKeystrokesWindows:
\* one array for every call
execCallbackSharedErrors(r, n, error) ==
    /\ n \in typings[r].closure.inflight
    /\ LET t == execCallbackOf(typings[r].closure, n, error)
       IN  typings' = [q \in DOMAIN typings |->
                        IF q = r THEN [typings[q] EXCEPT !.closure = t]
                        ELSE [typings[q] EXCEPT !.closure.errors = t.errors]]
    /\ logs' = IF error # <<>>
               THEN LoggerLog(logs, "warn", "paste",
                              <<"Batch error at position", r, typings[r].closure.index>>)
               ELSE logs
    /\ UNCHANGED besideTypings

\* the callback of exec call n of request r
execCallbackIn(r, n, error) ==
    /\ n \in typings[r].closure.inflight
    /\ typings' = [typings EXCEPT ![r].closure = execCallbackOf(@, n, error)]
    /\ logs' = IF error # <<>>
               THEN LoggerLog(logs, "warn", "paste",
                              <<"Batch error at position", r, typings[r].closure.index>>)
               ELSE logs
    /\ UNCHANGED besideTypings

\* a 'paste-via-clipboard' request not made yet.  seen is history: the
\* clipboard content at the moment the request's paste process is started
NoPaste == [request |-> NoRequest, seen |-> <<>>]

\* the variables a 'paste-via-clipboard' request leaves alone
besidePastes == <<calls, typing, request, mainWindow, isQuitting, tray,
                  clipboardMonitorInterval, lastClipboardText, appPhase, windows, loading,
                  windowsCreated, pendingShow, allClosedPending, timers, registered, sent,
                  tickLog, startSnapshot, sentAtStart, ticks, obsVars, shellCommand,
                  PLATFORM, linuxDisplayServer, installed, hotkeyReport, hotkeyTest,
                  bridge, typings>>

\* the handler of request r runs on as `run`, up to its next await or to its
\* return: Advance for one of several requests
AdvanceIn(r, req, pre, ownWrites, run) ==
    LET next == run.next
        writes == [i \in DOMAIN ownWrites |-> IF ownWrites[i] THEN "handlerWrite"
                                            ELSE "handlerWriteThrew"]
                  \o [i \in DOMAIN run.writes |-> IF run.writes[i] THEN "write"
                                                  ELSE "writeThrew"]
        wrote == \E i \in DOMAIN writes : writes[i] \in {"handlerWrite", "write"}
        entries ==
            pre \o run.entries \o
            (CASE next.kind = "spawn" ->
                    <<Entry("info", "command", <<"Executing", req.requestId, next.command>>)>>
               [] next.kind = "return" -> <<CompletedEntry(req.channel, req.requestId)>>
               [] next.kind = "throw" -> <<FailedEntry(req.channel, req.requestId)>>
               [] OTHER -> <<>>)
    IN  /\ logs' = LogAll(logs, entries)
        /\ clipboard' = IF wrote THEN req.text ELSE clipboard
        /\ probes' = probes \o run.probes
        /\ pastes' = [pastes EXCEPT
                ![r].seen = IF next.kind = "spawn" THEN <<clipboard'>> ELSE @,
                ![r].request = [req EXCEPT
                    !.stage = CASE next.kind = "spawn" -> "awaiting"
                                [] next.kind = "settle" -> "settling"
                                [] OTHER -> "done",
                    !.fn = IF next.kind = "settle" THEN next.fn ELSE @,
                    !.method = IF next.kind = "spawn" THEN next.method ELSE @,
                    !.spawned = IF next.kind = "spawn"
                                THEN <<[command |-> next.command, args |-> next.args,
                                        line |-> ShellLine(next.command, next.args),
                                        timeoutMs |-> next.timeoutMs]>>
                                ELSE @,
                    !.events = @ \o writes \o
                               (CASE next.kind = "spawn" -> <<"spawn">>
                                  [] next.kind = "settle" -> <<"settleStart">>
                                  [] OTHER -> <<>>),
                    !.reply = CASE next.kind = "return" ->
                                    <<Returned(req.channel, next.result, req.requestId)>>
                                [] next.kind = "throw" ->
                                    <<Caught(req.channel, next.message, req.requestId)>>
                                [] OTHER -> @]]
        /\ UNCHANGED besidePastes

\* ipcMain.handle('paste-via-clipboard', ...) of request r, up to its first
\* await or its return
pasteViaClipboardRequest(r, text, handlerWriteOk, writeOk) ==
    /\ pastes[r].request.stage = "idle"
    /\ AdvanceIn(r,
                 [NoRequest EXCEPT !.channel = "paste-via-clipboard", !.text = text,
                                   !.requestId = r],
                 <<Entry("info", "paste", <<"Clipboard paste", r, Len(text)>>)>>
                 \o (IF handlerWriteOk
                     THEN <<Entry("info", "paste", <<"Clipboard content set", r>>)>>
                     ELSE <<>>),
                 <<handlerWriteOk>>,
                 IF handlerWriteOk THEN pasteViaClipboard(text, r, writeOk)
                 ELSE Ran(<<>>, <<>>, <<>>, Throw(WriteError)))

\* the 100 ms timer of request r's settle delay fires: its paste function goes
\* on and starts the process that sends the paste shortcut
settleElapsedIn(r) ==
    /\ pastes[r].request.stage = "settling"
    /\ AdvanceIn(r, [pastes[r].request EXCEPT !.events = Append(@, "settleElapsed")],
                 <<>>, <<>>,
                 ResumeAfterSettle(pastes[r].request.fn, r))

\* the paste process of request r ends with 'close': executeCommand resolves,
\* and the handler goes on after its await: it logs and returns
pasteProcessClosed(r, code) ==
    /\ pastes[r].request.stage = "awaiting"
    /\ LET result == Merge(CloseResult(NoCall, code), [method |-> pastes[r].request.method])
       IN  /\ logs' = LogAll(logs,
                    <<Entry(IF code = "0" THEN "success" ELSE "error", "command",
                            <<"Command finished with code", r, code>>),
                      CompletedEntry("paste-via-clipboard", r)>>)
           /\ pastes' = [pastes EXCEPT
                    ![r].request.stage = "done",
                    ![r].request.events = Append(@, "close"),
                    ![r].request.reply = <<Returned("paste-via-clipboard", result, r)>>]
    /\ UNCHANGED <<clipboard, probes, besidePastes>>

(***************************************************************************)
(* The 'test-hotkeys' handler                                              *)
(***************************************************************************)
\* one if (globalShortcut.isRegistered(key)) ... else ... of 'test-hotkeys'
TestKey(acc, k) ==
    IF k \in registered
    THEN [acc EXCEPT !.count = @ + 1, !.registered = Append(@, k)]
    ELSE [acc EXCEPT !.failed = Append(@, k)]

RECURSIVE TestKeys(_, _)
TestKeys(acc, keys) ==
    IF keys = <<>> THEN acc ELSE TestKeys(TestKey(acc, Head(keys)), Tail(keys))

\* ipcMain.handle('test-hotkeys', ...)
testHotkeys ==
    /\ hotkeyTest = <<>>
    /\ LET acc == TestKeys([count |-> 0, registered |-> <<>>, failed |-> <<>>], PasteKeys)
           result == [success |-> acc.count > 0, registered |-> acc.count, total |-> 22,
                      registeredKeys |-> acc.registered, failedKeys |-> acc.failed,
                      platform |-> PLATFORM_NAME]
       IN  /\ hotkeyTest' = <<result>>
           /\ logs' = LoggerLog(LoggerLog(logs, "info", "ipc", <<"Hotkey test requested">>),
                                "info", "ipc", <<"Hotkey test complete">>)
    /\ UNCHANGED <<calls, monVars, obsVars, winVars, dispVars, hotkeyReport, bridge,
                   typings, pastes>>

(***************************************************************************)
(* The preload bridge (src/preload.js): window.electron of the renderer    *)
(***************************************************************************)
INVOKE_CHANNELS ==
    {"simulate-keystrokes", "paste-via-clipboard", "paste-powershell", "test-hotkeys",
     "get-clipboard-content", "get-main-process-logs"}

SEND_CHANNELS == {"minimize-window", "close-app", "set-local-clipboard", "renderer-log"}

RECEIVE_CHANNELS ==
    {"paste-cell", "copy-to-notepad", "clipboard-changed", "paste-on-deck", "reverse-copy",
     "hotkey-registration-complete", "main-process-log", "show-debug-logs"}

\* the lower-case letter of a letter of the URLs, any other character itself
LowerCase(char) ==
    CASE char = "H" -> "h" [] char = "T" -> "t" [] char = "P" -> "p" [] char = "S" -> "s"
      [] char = "M" -> "m" [] char = "A" -> "a" [] char = "I" -> "i" [] char = "L" -> "l"
      [] char = "O" -> "o" [] OTHER -> char

\* s begins with the characters of prefix, whatever the case of the letters
StartsWith(s, prefix) ==
    /\ Len(s) >= Len(prefix)
    /\ \A i \in DOMAIN prefix : LowerCase(s[i]) = prefix[i]

\* s holds the characters of part somewhere, whatever the case of the letters
Contains(s, part) ==
    \E from \in 0..(Len(s) - Len(part)) :
        \A i \in DOMAIN part : LowerCase(s[from + i]) = part[i]

\* the test without the ^ of the pattern
SchemeTestUnanchored(url) ==
    \/ Contains(url, <<"h", "t", "t", "p", ":">>)
    \/ Contains(url, <<"h", "t", "t", "p", "s", ":">>)
    \/ Contains(url, <<"m", "a", "i", "l", "t", "o", ":">>)

\* /^(https?:|mailto:)/i.test(url)
SchemeTest(url) ==
    \/ StartsWith(url, <<"h", "t", "t", "p", ":">>)
    \/ StartsWith(url, <<"h", "t", "t", "p", "s", ":">>)
    \/ StartsWith(url, <<"m", "a", "i", "l", "t", "o", ":">>)

\* one call of the renderer on the bridge: what it was (api, arg), the call it
\* made on ipcRenderer or shell (passed, <<>> when none) and whether it threw
BridgeCall(api, arg, allowed, method) ==
    [api |-> api, arg |-> arg,
     passed |-> IF allowed THEN <<[method |-> method, arg |-> arg]>> ELSE <<>>,
     threw |-> ~allowed]

\* window.electron.ipcRenderer.invoke(channel, ...args)
bridgeInvoke(channel) ==
    bridge' = Append(bridge, BridgeCall("invoke", channel, channel \in INVOKE_CHANNELS,
                                        "ipcRenderer.invoke"))

\* window.electron.ipcRenderer.send(channel, ...args)
bridgeSend(channel) ==
    bridge' = Append(bridge, BridgeCall("send", channel, channel \in SEND_CHANNELS,
                                        "ipcRenderer.send"))

\* window.electron.ipcRenderer.on(channel, func)
bridgeOn(channel) ==
    bridge' = Append(bridge, BridgeCall("on", channel, channel \in RECEIVE_CHANNELS,
                                        "ipcRenderer.on"))

\* window.electron.shell.openExternal(url)
openExternal(url) ==
    bridge' = Append(bridge, BridgeCall("openExternal", url, SchemeTest(url),
                                        "shell.openExternal"))

(***************************************************************************)
(* Initial state: the module has been loaded (line 902 logs once)          *)
(***************************************************************************)
Init ==
    /\ logs = LoggerLog(<<>>, "success", "startup", <<"Main process initialized">>)
    /\ calls = [c \in CallIds |-> NoCall]
    /\ mainWindow = <<>>
    /\ isQuitting = FALSE
    /\ tray = FALSE
    /\ clipboardMonitorInterval = <<>>
    /\ lastClipboardText = <<>>
    /\ appPhase = "starting"
    /\ windows = {}
    /\ loading = {}
    /\ windowsCreated = 0
    /\ pendingShow = 0
    /\ allClosedPending = FALSE
    /\ timers = {}
    /\ clipboard \in Texts
    /\ registered = {}
    /\ sent = <<>>
    /\ tickLog = <<>>
    /\ startSnapshot = <<>>
    /\ sentAtStart = 0
    /\ ticks = 0
    /\ startHist = [started |-> FALSE, readOk |-> FALSE, clip |-> <<>>, copied |-> FALSE]
    /\ inserted = <<[level |-> "success", category |-> "startup",
                    message |-> <<"Main process initialized">>]>>
    /\ logsReply = <<>>
    /\ typing = NoKeys
    /\ shellCommand = <<>>
    /\ \E pf \in Profiles :
          /\ PLATFORM = pf.platform
          /\ linuxDisplayServer = pf.displayServer
          /\ installed = pf.installed
    /\ probes = <<>>
    /\ request = NoRequest
    /\ hotkeyReport = <<>>
    /\ hotkeyTest = <<>>
    /\ bridge = <<>>
    /\ typings = [r \in OverlapRequestIds |-> NoTyping]
    /\ pastes = [r \in OverlapRequestIds |-> NoPaste]

\* the process runs on Windows (checkPlatformTools above is that branch)
InitWindows == Init /\ PLATFORM = "win32"

(***************************************************************************)
(* Specification of executeCommand and its callbacks                       *)
(***************************************************************************)
ExecStart ==
    \E c \in CallIds, inv \in Invocations, r \in RequestIds :
        executeCommand(c, inv[1], inv[2], r) /\ UNCHANGED <<monVars, obsVars, winVars, dispVars, ipcVars>>

ExecTimeout == \E c \in CallIds : onTimeout(c) /\ UNCHANGED <<monVars, obsVars, winVars, dispVars, ipcVars>>

ExecStdout == \E c \in CallIds : onStdoutData(c) /\ UNCHANGED <<monVars, obsVars, winVars, dispVars, ipcVars>>

ExecStderr == \E c \in CallIds : onStderrData(c) /\ UNCHANGED <<monVars, obsVars, winVars, dispVars, ipcVars>>

ExecClose == \E c \in CallIds, code \in ExitCodes : onClose(c, code) /\ UNCHANGED <<monVars, obsVars, winVars, dispVars, ipcVars>>

ExecError == \E c \in CallIds, msg \in SpawnErrors : onError(c, msg) /\ UNCHANGED <<monVars, obsVars, winVars, dispVars, ipcVars>>

ExecNext ==
    \/ ExecStart
    \/ ExecTimeout
    \/ ExecStdout
    \/ ExecStderr
    \/ ExecClose
    \/ ExecError

\* the clipboard plays no part in executeCommand: it starts empty
InitExec == InitWindows /\ clipboard = <<>>

SpecExec == InitExec /\ [][ExecNext]_vars

\* timers fire: a timeout that stays armed runs its callback
SpecExecFair == SpecExec /\ \A c \in CallIds : WF_vars(onTimeout(c) /\ UNCHANGED <<monVars, obsVars, winVars, dispVars, ipcVars>>)

(***************************************************************************)
(* Specification of the clipboard monitor and the window lifecycle         *)
(***************************************************************************)
MonAppReady == \E trayOk \in BOOLEAN : appReady(trayOk) /\ UNCHANGED <<obsVars, winVars, dispVars, ipcVars>>

MonDomReady == \E w \in windows : domReady(w) /\ UNCHANGED <<obsVars, winVars, dispVars, ipcVars>>

MonShowTimeout ==
    \E readOk \in BOOLEAN : showTimeout(AllRegistered, readOk) /\ UNCHANGED <<obsVars, winVars, dispVars, ipcVars>>

MonTick ==
    \E t \in timers, readOk \in BOOLEAN :
        ticks < MaxTicks /\ tick(t, readOk) /\ UNCHANGED <<obsVars, winVars, dispVars, ipcVars>>

MonExternalCopy == \E text \in Texts : externalCopy(text) /\ UNCHANGED <<obsVars, winVars, dispVars, ipcVars>>

MonQuit == quitApp /\ UNCHANGED <<obsVars, winVars, dispVars, ipcVars>>

MonWindowClosed == \E w \in windows : windowClosed(w) /\ UNCHANGED <<obsVars, winVars, dispVars, ipcVars>>

MonWindowAllClosed == windowAllClosed /\ UNCHANGED <<obsVars, winVars, dispVars, ipcVars>>

\* one main window: 'activate' finds no reason to create another
MonNext ==
    \/ MonAppReady
    \/ MonDomReady
    \/ MonShowTimeout
    \/ MonTick
    \/ MonExternalCopy
    \/ MonQuit
    \/ MonWindowClosed
    \/ MonWindowAllClosed

SpecMon == InitWindows /\ [][MonNext]_vars

(***************************************************************************)
(* Specification of the start of the monitor, observed from outside        *)
(***************************************************************************)
\* the timeout callback, observed: when it starts the monitor, the outcome of
\* the start's read and the text on the clipboard are noted
StartShowTimeout ==
    \E readOk \in BOOLEAN :
        /\ showTimeout(AllRegistered, readOk)
        /\ startHist' = IF mainWindow = <<>> THEN startHist
                        ELSE [started |-> TRUE, readOk |-> readOk, clip |-> clipboard,
                              copied |-> FALSE]
        /\ UNCHANGED <<inserted, logsReply, winVars, dispVars, ipcVars>>

StartTick ==
    \E t \in timers, readOk \in BOOLEAN :
        ticks < MaxStartTicks /\ tick(t, readOk) /\ UNCHANGED <<obsVars, winVars, dispVars, ipcVars>>

\* a copy, observed: the clipboard has been replaced since the start
StartExternalCopy ==
    \E text \in Texts :
        /\ externalCopy(text)
        /\ startHist' = [startHist EXCEPT !.copied = startHist.started]
        /\ UNCHANGED <<inserted, logsReply, winVars, dispVars, ipcVars>>

\* the window stays open
StartNext ==
    \/ MonAppReady
    \/ MonDomReady
    \/ StartShowTimeout
    \/ StartTick
    \/ StartExternalCopy

SpecStart == InitWindows /\ [][StartNext]_vars

(***************************************************************************)
(* Specification of the monitor across windows: 'activate' creates a new   *)
(* window when none is left                                                *)
(***************************************************************************)
LifeActivate ==
    /\ windowsCreated < MaxWindows
    /\ activate
    /\ UNCHANGED <<obsVars, winVars, dispVars, ipcVars>>

\* the clipboard is readable at every tick (a tick whose read throws is in SpecMon)
LifeTick ==
    \E t \in timers :
        ticks < MaxLifeTicks /\ tick(t, TRUE) /\ UNCHANGED <<obsVars, winVars, dispVars, ipcVars>>

LifeNext ==
    \/ MonAppReady
    \/ LifeActivate
    \/ MonDomReady
    \/ MonShowTimeout
    \/ LifeTick
    \/ MonQuit
    \/ MonWindowClosed
    \/ MonWindowAllClosed

\* a text is on the clipboard from the beginning, and nothing replaces it
InitLife == InitWindows /\ clipboard = <<"a">>

SpecLife == InitLife /\ [][LifeNext]_vars

(***************************************************************************)
(* Specification of the monitor restarted: windows come and go, the        *)
(* clipboard changes, and the monitor is started again while it runs       *)
(***************************************************************************)
\* the clipboard is readable at every tick (a tick whose read throws is in SpecMon)
RestartTick ==
    \E t \in timers :
        ticks < MaxRestartTicks /\ tick(t, TRUE) /\ UNCHANGED <<obsVars, winVars, dispVars, ipcVars>>

\* the text on the clipboard is replaced, once
RestartExternalCopy == externalCopy(<<"b">>) /\ UNCHANGED <<obsVars, winVars, dispVars, ipcVars>>

RestartNext ==
    \/ MonAppReady
    \/ LifeActivate
    \/ MonDomReady
    \/ MonShowTimeout
    \/ RestartTick
    \/ RestartExternalCopy
    \/ MonQuit
    \/ MonWindowClosed

SpecRestart == InitLife /\ [][RestartNext]_vars

(***************************************************************************)
(* Specification of the hotkeys: setupHotkeys with register refusing keys, *)
(* and the 'test-hotkeys' request before or after it                       *)
(***************************************************************************)
KeysSetup == hotkeyReport = <<>> /\ \E o \in RefusedOutcomes : setupHotkeysCall(o)

KeysTest == testHotkeys

KeysNext ==
    \/ KeysSetup
    \/ KeysTest

SpecKeys == InitExec /\ [][KeysNext]_vars

(***************************************************************************)
(* Specification of the preload bridge: the renderer calls it              *)
(***************************************************************************)
\* the variables of the main process: the bridge runs in the renderer
mainVars == <<logs, execVars, monVars, obsVars, winVars, dispVars, hotkeyReport, hotkeyTest,
              typings, pastes>>

BridgeInvoke ==
    \E channel \in BridgeChannels :
        Len(bridge) < MaxBridgeCalls /\ bridgeInvoke(channel) /\ UNCHANGED mainVars

BridgeSend ==
    \E channel \in BridgeChannels :
        Len(bridge) < MaxBridgeCalls /\ bridgeSend(channel) /\ UNCHANGED mainVars

BridgeOn ==
    \E channel \in BridgeChannels :
        Len(bridge) < MaxBridgeCalls /\ bridgeOn(channel) /\ UNCHANGED mainVars

BridgeOpenExternal ==
    \E url \in BridgeUrls :
        Len(bridge) < MaxBridgeCalls /\ openExternal(url) /\ UNCHANGED mainVars

BridgeNext ==
    \/ BridgeInvoke
    \/ BridgeSend
    \/ BridgeOn
    \/ BridgeOpenExternal

SpecBridge == InitExec /\ [][BridgeNext]_vars

(***************************************************************************)
(* Specification of 'simulate-keystrokes' requests that overlap            *)
(***************************************************************************)
\* the requests are made in the order of their ids
OverlapSimulateKeystrokes ==
    \E r \in OverlapRequestIds, text \in OverlapTexts, delay \in OverlapDelays :
        /\ r = "r2" => typings["r1"].closure.started
        /\ simulateKeystrokesRequest(r, text, delay)

OverlapProcessNextBatch == \E r \in OverlapRequestIds : processNextBatchIn(r)

OverlapExecCallback ==
    \E r \in OverlapRequestIds, error \in {<<>>} \cup {<<e>> : e \in ExecErrors} :
        \E n \in typings[r].closure.inflight : execCallbackIn(r, n, error)

OverlapNext ==
    \/ OverlapSimulateKeystrokes
    \/ OverlapProcessNextBatch
    \/ OverlapExecCallback

SpecOverlap == InitExec /\ [][OverlapNext]_vars

(***************************************************************************)
(* Specification of the log buffer under the renderer's requests           *)
(***************************************************************************)
\* the renderer numbers its messages and goes through the levels in turn
LogRendererLog ==
    /\ Len(inserted) < MaxLogCalls
    /\ LET n == Len(inserted)
       IN  rendererLog(LogLevels[(n % Len(LogLevels)) + 1], <<"renderer message", n>>)

LogGetLogs == getMainProcessLogs

LogNext ==
    \/ LogRendererLog
    \/ LogGetLogs

SpecLog == InitExec /\ [][LogNext]_vars

(***************************************************************************)
(* Specification of the Windows paste operations: one request in a run     *)
(***************************************************************************)
WinKeysStart ==
    \E text \in WinTexts, delay \in KeyDelays, r \in RequestIds :
        /\ ~calls[1].started
        /\ simulateKeystrokesWindows(text, delay, r)

WinProcessNextBatch == processNextBatch

WinExecCallback ==
    \E n \in typing.inflight, error \in {<<>>} \cup {<<e>> : e \in ExecErrors} :
        execCallback(n, error)

WinShellStart ==
    \E text \in WinTexts, r \in RequestIds :
        /\ ~typing.started
        /\ pasteViaShellWindows(1, text, r)

WinNext ==
    \/ WinKeysStart
    \/ WinProcessNextBatch
    \/ WinExecCallback
    \/ WinShellStart
    \/ ExecTimeout
    \/ ExecStdout
    \/ ExecStderr
    \/ ExecClose
    \/ ExecError

SpecWin == InitExec /\ [][WinNext]_vars

\* the same, with timers that fire and exec calls that call back
SpecWinFair ==
    SpecWin /\ WF_vars(WinProcessNextBatch) /\ WF_vars(WinExecCallback)

(***************************************************************************)
(* Specification of the batch size: one text, every delay of the range     *)
(***************************************************************************)
SizeKeysStart ==
    \E delay \in SizeDelays, r \in RequestIds :
        simulateKeystrokesWindows(ExampleText, delay, r)

SizeNext ==
    \/ SizeKeysStart
    \/ WinProcessNextBatch
    \/ WinExecCallback

SpecSize == InitExec /\ [][SizeNext]_vars

(***************************************************************************)
(* Specification of the dispatch handlers: one request in a run, on every  *)
(* host.  The continuation of an await runs before any other callback.     *)
(***************************************************************************)
KeystrokeTexts ==
    IF IS_WINDOWS THEN {<<"a">>, ExampleText} ELSE IF IS_MAC THEN MacTexts ELSE LinuxTexts

ShellTexts ==
    IF IS_WINDOWS THEN {<<"a">>, <<"a", "\n">>} ELSE IF IS_MAC THEN {<<"a">>} ELSE LinuxTexts

DispSimulateKeystrokes ==
    \E text \in KeystrokeTexts, delay \in DispDelays, r \in RequestIds, writeOk \in BOOLEAN :
        handleSimulateKeystrokes(text, delay, r, writeOk)

DispPasteViaClipboard ==
    \E text \in {<<"a">>}, r \in RequestIds, handlerWriteOk \in BOOLEAN, writeOk \in BOOLEAN :
        handlePasteViaClipboard(text, r, handlerWriteOk, writeOk)

DispPastePowershell ==
    \E text \in ShellTexts, r \in RequestIds, writeOk \in BOOLEAN :
        handlePastePowershell(text, r, writeOk)

DispSettleElapsed == settleElapsed

DispReturn == handlerReturn

DispProcessNextBatch == ~Resumable /\ processNextBatch

DispExecCallback == ~Resumable /\ WinExecCallback

DispTimeout == ~Resumable /\ ExecTimeout

DispStdout == ~Resumable /\ ExecStdout

DispStderr == ~Resumable /\ ExecStderr

DispClose == ~Resumable /\ ExecClose

DispError == ~Resumable /\ ExecError

DispNext ==
    \/ DispSimulateKeystrokes
    \/ DispPasteViaClipboard
    \/ DispPastePowershell
    \/ DispSettleElapsed
    \/ DispReturn
    \/ DispProcessNextBatch
    \/ DispExecCallback
    \/ DispTimeout
    \/ DispStdout
    \/ DispStderr
    \/ DispClose
    \/ DispError

InitDisp == Init /\ clipboard = <<>>

SpecDisp == InitDisp /\ [][DispNext]_vars

(***************************************************************************)
(* Specification of 'paste-via-clipboard' requests that overlap, on every  *)
(* platform profile; no other writer of the clipboard                      *)
(***************************************************************************)
\* the requests are made in the order of their ids
OverlapPasteViaClipboard ==
    \E r \in OverlapRequestIds, text \in OverlapPasteTexts,
       handlerWriteOk \in BOOLEAN, writeOk \in BOOLEAN :
        /\ r = "r2" => pastes["r1"].request.stage # "idle"
        /\ pasteViaClipboardRequest(r, text, handlerWriteOk, writeOk)

OverlapSettleElapsed == \E r \in OverlapRequestIds : settleElapsedIn(r)

OverlapProcessClosed ==
    \E r \in OverlapRequestIds, code \in ExitCodes : pasteProcessClosed(r, code)

OverlapPasteNext ==
    \/ OverlapPasteViaClipboard
    \/ OverlapSettleElapsed
    \/ OverlapProcessClosed

SpecOverlapPaste == InitDisp /\ [][OverlapPasteNext]_vars

(***************************************************************************)
(* Specification of the earlier 'paste-powershell' handler, on Windows     *)
(***************************************************************************)
OldPastePowershell ==
    \E text \in PsTexts, r \in RequestIds : handlePastePowershellDoubleQuoted(text, r)

OldNext ==
    \/ OldPastePowershell
    \/ DispReturn
    \/ DispTimeout
    \/ DispStdout
    \/ DispStderr
    \/ DispClose
    \/ DispError

SpecOld == InitExec /\ [][OldNext]_vars

(***************************************************************************)
(* Properties of executeCommand                                            *)
(***************************************************************************)
\* the value of the promise of call c: the first value passed to resolve()
Result(c) == calls[c].resolves[1]

\* the callback that ran first for call c
FirstEvent(c) == calls[c].events[1]

\* which callback built result r: only the timeout's has a timeout, and of the
\* other two only the close callback's has a code
ResultSource(r) ==
    IF "timeout" \in DOMAIN r THEN "timeout"
    ELSE IF "code" \in DOMAIN r THEN "close" ELSE "error"

\* C1: whatever callbacks have run for a call, and in whatever order (timeout,
\* 'close', 'error'; one, two or all three), resolve() has been called exactly
\* once, with the result of the callback that ran first; before any callback it
\* has not been called at all.
C1_ResolvedExactlyOnceByFirst ==
    \A c \in CallIds :
        /\ calls[c].events = <<>> => calls[c].resolves = <<>> /\ ~calls[c].completed
        /\ calls[c].events # <<>> =>
              /\ Len(calls[c].resolves) = 1
              /\ calls[c].completed
              /\ ResultSource(Result(c)) = FirstEvent(c).type

\* all three callbacks have run for one call, and it is resolved
C1_Witness ==
    \E c \in CallIds : Len(calls[c].events) = 3 /\ Len(calls[c].resolves) = 1

\* C2: when the timeout fires before 'close' and 'error', the child is killed
\* and the result is success=false, error "Command timed out", the configured
\* timeout value, and no exit code.
C2_TimeoutKillsAndReports ==
    \A c \in CallIds :
        (calls[c].events # <<>> /\ FirstEvent(c).type = "timeout") =>
            /\ calls[c].killed
            /\ Result(c) = [success |-> FALSE, error |-> <<"Command timed out">>,
                            timeout |-> calls[c].timeoutMs]
            /\ "code" \notin DOMAIN Result(c)

\* a call started with the 30000 ms timeout has timed out
C2_Witness ==
    \E c \in CallIds :
        /\ calls[c].events = <<[type |-> "timeout", arg |-> ""]>>
        /\ calls[c].timeoutMs = 30000
        /\ ~Result(c).success

\* C3: every executeCommand call eventually resolves, also when the child never
\* closes and never errors, given that an armed timer fires.
C3_EveryCallResolves ==
    \A c \in CallIds : calls[c].started ~> (Len(calls[c].resolves) = 1)

\* a call resolved by its timeout alone: the child neither closed nor errored
C3_Witness ==
    \E c \in CallIds :
        /\ Len(calls[c].resolves) = 1
        /\ ~calls[c].closeEmitted
        /\ ~calls[c].errorEmitted

\* C4: when 'close' comes first, success is true exactly when the code is 0; for
\* another code success is false and the error is the captured stderr, or the
\* generic message naming the code when stderr is empty; the code is in the result.
C4_CloseResult ==
    \A c \in CallIds :
        (calls[c].events # <<>> /\ FirstEvent(c).type = "close") =>
            LET code == FirstEvent(c).arg
                r == Result(c)
            IN  /\ r.success = (code = "0")
                /\ "code" \in DOMAIN r /\ r.code = code
                /\ code # "0" =>
                      r.error = IF calls[c].error = <<>>
                                THEN <<"Command failed with code ", code>>
                                ELSE calls[c].error

\* a child that wrote to stderr closed with code 1 before the timeout
C4_Witness ==
    \E c \in CallIds :
        /\ calls[c].events # <<>>
        /\ FirstEvent(c) = [type |-> "close", arg |-> "1"]
        /\ calls[c].error = <<StderrChunk>>
        /\ Result(c).error = <<StderrChunk>>

\* C5: when 'error' comes first, the result is success=false with the system's
\* error message and no exit code, and the timeout is cancelled: its callback
\* never runs afterwards.
C5_SpawnFailure ==
    \A c \in CallIds :
        (calls[c].events # <<>> /\ FirstEvent(c).type = "error") =>
            /\ Result(c) = [success |-> FALSE, error |-> <<FirstEvent(c).arg>>]
            /\ "code" \notin DOMAIN Result(c)
            /\ calls[c].timer = "cleared"
            /\ \A i \in DOMAIN calls[c].events : calls[c].events[i].type # "timeout"

\* a spawn failure followed by the 'close' of the same child
C5_Witness ==
    \E c \in CallIds :
        /\ Len(calls[c].events) = 2
        /\ calls[c].events[1].type = "error"
        /\ calls[c].events[2].type = "close"

\* log entries of category "command" in the buffer
CommandLogCount == Cardinality({i \in DOMAIN logs : logs[i].category = "command"})

\* C6: each call has recorded one log entry when it is pending and two once it
\* is resolved, whatever callbacks ran after the resolution: the "command"
\* entries of the buffer number one per started call plus one per resolved call,
\* the oldest entry of a call being its invocation's.
C6_TwoLogEntriesPerCall ==
    CommandLogCount = Cardinality({c \in CallIds : calls[c].started})
                      + Cardinality({c \in CallIds : calls[c].completed})

\* a 'close' delivered after the timeout killed the child
C6_Witness ==
    \E c \in CallIds :
        /\ Len(calls[c].events) >= 2
        /\ calls[c].events[1].type = "timeout"
        /\ calls[c].events[2].type = "close"
        /\ CommandLogCount = 2

(***************************************************************************)
(* Properties of the clipboard monitor                                     *)
(***************************************************************************)
\* the texts of the ticks of log tl whose read returned, in order
RECURSIVE OkTexts(_)
OkTexts(tl) ==
    IF tl = <<>> THEN <<>>
    ELSE (IF Head(tl).ok THEN <<Head(tl).text>> ELSE <<>>) \o OkTexts(Tail(tl))

\* the events a monitor with snapshot snap owes for the reads: each read that is
\* non-empty and differs from the snapshot, which it then replaces
RECURSIVE Emitted(_, _)
Emitted(snap, reads) ==
    IF reads = <<>> THEN <<>>
    ELSE LET r == Head(reads)
             fires == r # <<>> /\ r # snap
         IN  (IF fires THEN <<r>> ELSE <<>>) \o Emitted(IF fires THEN r ELSE snap, Tail(reads))

\* the snapshot after the reads
RECURSIVE SnapshotAfter(_, _)
SnapshotAfter(snap, reads) ==
    IF reads = <<>> THEN snap
    ELSE LET r == Head(reads)
         IN  SnapshotAfter(IF r # <<>> /\ r # snap THEN r ELSE snap, Tail(reads))

\* the 'clipboard-changed' texts sent since the last start
SentSinceStart == SubSeq(sent, sentAtStart + 1, Len(sent))

\* the reads "", "a", "a", "b", ""
ExampleReads == << <<>>, <<"a">>, <<"a">>, <<"b">>, <<>> >>

\* C7: the 'clipboard-changed' events sent since the monitor started are exactly,
\* in order, the successful reads that were non-empty and differed from the
\* snapshot at their tick, and the snapshot is the last such read; after the
\* reads "", "a", "a", "b", "" from an empty snapshot exactly "a" and "b" were sent.
C7_EventsAreTheChangedReads ==
    LET reads == OkTexts(tickLog)
    IN  /\ SentSinceStart = Emitted(startSnapshot, reads)
        /\ lastClipboardText = SnapshotAfter(startSnapshot, reads)
        /\ (startSnapshot = <<>> /\ reads = ExampleReads) =>
                SentSinceStart = << <<"a">>, <<"b">> >>

\* the reads of the example have been made, from an empty snapshot
C7_Witness ==
    /\ startSnapshot = <<>>
    /\ OkTexts(tickLog) = ExampleReads
    /\ sent = << <<"a">>, <<"b">> >>

\* C8: a tick that read the empty text sent no event and left the snapshot as it
\* was, and three successive ticks that read x, "", x (x not empty) sent at most
\* one event between them.
C8_EmptyReadIsIgnored ==
    /\ \A i \in DOMAIN tickLog :
          (tickLog[i].ok /\ tickLog[i].text = <<>>) =>
              /\ tickLog[i].sentAfter = tickLog[i].sentBefore
              /\ tickLog[i].after = tickLog[i].before
    /\ \A i \in DOMAIN tickLog :
          (/\ i + 2 <= Len(tickLog)
           /\ tickLog[i].ok /\ tickLog[i + 1].ok /\ tickLog[i + 2].ok
           /\ tickLog[i].text # <<>>
           /\ tickLog[i + 1].text = <<>>
           /\ tickLog[i + 2].text = tickLog[i].text) =>
              tickLog[i + 2].sentAfter - tickLog[i].sentBefore <= 1

\* ticks read x, "", x with x new: the first sent the event, the others nothing
C8_Witness ==
    \E i \in DOMAIN tickLog :
        /\ i + 2 <= Len(tickLog)
        /\ tickLog[i].ok /\ tickLog[i + 1].ok /\ tickLog[i + 2].ok
        /\ tickLog[i].text = <<"a">>
        /\ tickLog[i + 1].text = <<>>
        /\ tickLog[i + 2].text = <<"a">>
        /\ tickLog[i].sentAfter = tickLog[i].sentBefore + 1
        /\ tickLog[i + 2].sentAfter = tickLog[i].sentAfter
        /\ lastClipboardText = <<"a">>

\* a step that is a tick whose clipboard read threw
ThrowingTick ==
    /\ Len(tickLog') = Len(tickLog) + 1
    /\ ~tickLog'[Len(tickLog')].ok

\* C9: a tick whose clipboard read throws sends no event, leaves the snapshot
\* unchanged, records one debug-level log entry, and leaves the timer and its
\* handle as they were, so the monitor stays Running and ticks again.
C9_ThrowingTickIsSkipped ==
    [][ThrowingTick =>
          /\ sent' = sent
          /\ lastClipboardText' = lastClipboardText
          /\ Len(logs') = Len(logs) + 1
          /\ Head(logs').level = "debug"
          /\ Tail(logs') = logs
          /\ clipboardMonitorInterval' = clipboardMonitorInterval
          /\ clipboardMonitorInterval # <<>>
          /\ timers' = timers
          /\ \E t \in timers' : TRUE]_vars

\* a tick threw and the next tick sent the changed text
C9_Witness ==
    \E i \in DOMAIN tickLog :
        /\ i + 1 <= Len(tickLog)
        /\ ~tickLog[i].ok
        /\ tickLog[i + 1].ok
        /\ tickLog[i + 1].sentAfter = tickLog[i + 1].sentBefore + 1
        /\ clipboardMonitorInterval # <<>>

\* log entries with message msg
LogCount(msg) == Cardinality({i \in DOMAIN logs : logs[i].message = msg})

\* C10: stopClipboardMonitoring on a stopped monitor changes nothing (handle,
\* timers, snapshot, log); stopping twice leaves what stopping once leaves;
\* after a stop no timer is active, so no tick runs until the next start; and
\* only a stop that found the monitor Running has logged.
C10_StopIsIdempotent ==
    LET once == stopClipboardMonitoring(MonState)
    IN  /\ clipboardMonitorInterval = <<>> => once = MonState
        /\ stopClipboardMonitoring(once) = once
        /\ once.interval = <<>> /\ once.timers = {} /\ once.last = lastClipboardText
        /\ clipboardMonitorInterval = <<>> => timers = {}
        /\ LogCount(<<"Clipboard monitoring stopped">>)
              <= LogCount(<<"Starting clipboard monitoring">>)

\* the monitor ran and ticked, 'before-quit' stopped it, and the 'closed'
\* handler then called stop again: the newest log entry is the handler's own
C10_Witness ==
    /\ ticks > 0
    /\ isQuitting
    /\ clipboardMonitorInterval = <<>>
    /\ Head(logs).message = <<"Main window closed">>
    /\ logs[2].message = <<"Clipboard monitoring stopped">>
    /\ LogCount(<<"Clipboard monitoring stopped">>) = 1

\* a step in which the monitor is started
StartStep ==
    /\ pendingShow' = pendingShow - 1
    /\ mainWindow # <<>>
    /\ startHist'.started

\* what a start does: the snapshot is the text on the clipboard, or the empty
\* text when the read threw; the timer runs in both cases; no event is sent
StartTakesBaseline ==
    StartStep =>
        /\ lastClipboardText' = IF startHist'.readOk THEN clipboard ELSE <<>>
        /\ clipboardMonitorInterval' # <<>>
        /\ clipboardMonitorInterval'[1] \in timers'
        /\ sent' = sent

\* C11 as stated: a start sets the snapshot to the text on the clipboard, or to
\* the empty text when the read throws, and starts the timer just the same; and
\* while the clipboard has not been replaced since the start, no event is sent.
C11_AsStated ==
    [][/\ StartTakesBaseline
       /\ (startHist'.started /\ ~startHist'.copied) => sent' = sent]_vars

\* C11, amended: a start sets the snapshot to the text on the clipboard, or to
\* the empty text when the read throws, and starts the timer just the same; and
\* after a start whose read returned, no event is sent while the clipboard has
\* not been replaced since the start.
C11_StartBaseline ==
    [][/\ StartTakesBaseline
       /\ (startHist'.started /\ startHist'.readOk /\ ~startHist'.copied) => sent' = sent]_vars

\* the start read "a", three ticks read it again, and nothing was sent
C11_Witness ==
    /\ startHist = [started |-> TRUE, readOk |-> TRUE, clip |-> <<"a">>, copied |-> FALSE]
    /\ lastClipboardText = <<"a">>
    /\ OkTexts(tickLog) = << <<"a">>, <<"a">>, <<"a">> >>
    /\ sent = <<>>

\* the main window exists: mainWindow is one of the open windows
WindowExists == mainWindow # <<>> /\ mainWindow[1] \in windows

\* while mainWindow is null the monitor is stopped, and while it runs the main
\* window exists
StoppedWithoutWindow ==
    /\ mainWindow = <<>> => (clipboardMonitorInterval = <<>> /\ timers = {})
    /\ (clipboardMonitorInterval # <<>> \/ timers # {}) => WindowExists

\* C12: from the 'closed' event of the window until a new window is created the
\* monitor is Stopped; whenever the monitor is Running a main window exists; and
\* every 'clipboard-changed' event is sent while the main window exists.
C12_NoEventIntoClosedWindow ==
    [][/\ StoppedWithoutWindow
       /\ StoppedWithoutWindow'
       /\ sent' # sent => WindowExists]_vars

\* the first window was closed while the monitor ran, which stopped it; a second
\* window was created, the monitor started again and sent an event to it
C12_Witness ==
    /\ windowsCreated = 2
    /\ mainWindow = <<2>>
    /\ clipboardMonitorInterval # <<>>
    /\ sent = << <<"a">> >>
    /\ \E i \in DOMAIN logs :
          /\ i > 1
          /\ logs[i].message = <<"Main window closed">>
          /\ logs[i - 1].message = <<"Clipboard monitoring stopped">>

(***************************************************************************)
(* Properties of the log buffer                                            *)
(***************************************************************************)
\* the elements of sequence s
Range(s) == {s[i] : i \in DOMAIN s}

\* sequence s back to front
Reverse(s) == [i \in 1..Len(s) |-> s[Len(s) + 1 - i]]

\* the last k elements of s, or all of s when it has fewer
LastOf(s, k) == SubSeq(s, IF Len(s) > k THEN Len(s) - k + 1 ELSE 1, Len(s))

\* C13: after any number n of logger.log calls the buffer holds at most 200
\* entries, n of them while n <= 200; after n > 200 calls it holds exactly 200,
\* each of the 200 most recent entries is in it and none of the n - 200 oldest.
C13_BufferHoldsNewest200 ==
    LET n == Len(inserted)
        held == Range(logs)
    IN  /\ Len(logs) <= 200
        /\ Len(logs) = IF n > 200 THEN 200 ELSE n
        /\ Cardinality(held) = Len(logs)
        /\ \A i \in 1..n : (inserted[i] \in held) <=> (i > n - 200)

\* 250 entries were logged: 200 are held, the first 50 are gone
C13_Witness ==
    /\ Len(inserted) = 250
    /\ Len(logs) = 200
    /\ inserted[50] \notin Range(logs)
    /\ inserted[51] \in Range(logs)

\* C14: getLogs, and every 'get-main-process-logs' reply, is the entries logged
\* so far that the 200-entry rule has not evicted, newest first: the reverse of
\* the insertion order, each such entry once and as it was logged.
C14_GetLogsNewestFirst ==
    /\ getLogs(logs) = Reverse(LastOf(inserted, 200))
    /\ logsReply # <<>> =>
          logsReply[1].entries = Reverse(LastOf(SubSeq(inserted, 1, logsReply[1].n), 200))

\* a reply made after 250 entries: its first entry is the newest, its last the 51st
C14_Witness ==
    /\ logsReply # <<>>
    /\ logsReply[1].n = 250
    /\ Len(logsReply[1].entries) = 200
    /\ logsReply[1].entries[1] = inserted[250]
    /\ logsReply[1].entries[200] = inserted[51]

(***************************************************************************)
(* Properties of simulateKeystrokesWindows                                 *)
(***************************************************************************)
\* the callbacks of the call that were given an error, in order
FailedCallbacks ==
    SelectSeq(typing.events, LAMBDA e : e.type = "callback" /\ e.error # <<>>)

\* the batches of the exec calls es, joined in order
RECURSIVE JoinBatches(_)
JoinBatches(es) ==
    IF es = <<>> THEN <<>> ELSE Head(es).batch \o JoinBatches(Tail(es))

\* C15: within one simulateKeystrokesWindows call at most one batch process is
\* in flight and no timer is pending while one is; the exec calls and their
\* callbacks alternate, batch n+1 starting only after the callback of batch n;
\* and the batches are the slices of the text in text order.
C15_BatchesAreSequential ==
    /\ Cardinality(typing.inflight) + typing.timers <= 1
    /\ \A i \in DOMAIN typing.events :
          /\ typing.events[i].type = (IF i % 2 = 1 THEN "exec" ELSE "callback")
          /\ typing.events[i].n = (i + 1) \div 2
    /\ \A n \in DOMAIN typing.execs :
          /\ typing.execs[n].pos = (n - 1) * typing.batchSize
          /\ typing.execs[n].batch =
                SubSeq(typing.text, typing.execs[n].pos + 1,
                       MathMin(typing.execs[n].pos + typing.batchSize, Len(typing.text)))

\* the five one-character batches of a{b}c were sent, each after the one before
C15_Witness ==
    /\ typing.text = ExampleText
    /\ typing.batchSize = 1
    /\ Len(typing.events) = 10
    /\ typing.resolves # <<>>

\* C16: when the call has resolved, every batch of the text was sent whatever
\* batches failed, success is true exactly when no callback was given an error,
\* and errors holds one item per failed batch, in order, naming the offset at
\* which that batch starts in the text; errors is undefined when none failed.
C16_FailuresAreCollected ==
    typing.resolves # <<>> =>
        LET r == typing.resolves[1]
            failed == FailedCallbacks
        IN  /\ Len(typing.resolves) = 1
            /\ JoinBatches(typing.execs) = typing.text
            /\ typing.inflight = {}
            /\ r.success = (failed = <<>>)
            /\ failed = <<>> => r.errors = <<>>
            /\ failed # <<>> =>
                  r.errors = << [i \in 1..Len(failed) |->
                                    <<"Position", typing.execs[failed[i].n].pos,
                                      failed[i].error[1]>>] >>

\* of the three batches of a{b}c the second failed, and the third was still sent
C16_Witness ==
    /\ typing.text = ExampleText
    /\ typing.batchSize = 2
    /\ typing.resolves # <<>>
    /\ Len(typing.execs) = 3
    /\ ~typing.resolves[1].success
    /\ typing.resolves[1].errors = << << <<"Position", 2, "Command failed">> >> >>

\* C17: for every delay of 1 or more the batch size of the call is floor(200 /
\* delay) brought into 1..20 (20 for delay 10, 4 for 50, 1 for 200 and for
\* 1000), and every batch sent has that many characters, the last one the rest.
C17_BatchSizeClamped ==
    typing.started =>
        LET q == 200 \div typing.delay
            b == typing.batchSize
        IN  /\ b \in 1..20
            /\ b = (IF q < 1 THEN 1 ELSE IF q > 20 THEN 20 ELSE q)
            /\ typing.delay = 10 => b = 20
            /\ typing.delay = 50 => b = 4
            /\ typing.delay = 200 => b = 1
            /\ typing.delay = 1000 => b = 1
            /\ \A n \in DOMAIN typing.execs :
                  /\ Len(typing.execs[n].batch) <= b
                  /\ n < Len(typing.execs) => Len(typing.execs[n].batch) = b

\* delay 50: a{b}c went out as the batch a{b} and the batch c
C17_Witness ==
    /\ typing.delay = 50
    /\ Len(typing.execs) = 2
    /\ typing.execs[1].batch = <<"a", "{", "b", "}">>
    /\ typing.execs[2].batch = <<"c">>

(***************************************************************************)
(* Properties of the escaping                                              *)
(***************************************************************************)
\* the keyword of the Enter key
SendKeysEnter == <<"E", "N", "T", "E", "R">>

\* the position of the first closing brace of s at or after j; Len(s) + 1 if none
RECURSIVE ClosingBrace(_, _)
ClosingBrace(s, j) ==
    IF j > Len(s) THEN j
    ELSE IF s[j] = "}" THEN j ELSE ClosingBrace(s, j + 1)

\* What SendKeys.SendWait makes of the string s from position i on, as its key
\* grammar has it: {x} is the character x, so that {{} is the opening and {}} the
\* closing brace; {ENTER} and ~ are the Enter key; + ^ % are the Shift, Ctrl and
\* Alt modifiers of the key that follows and ( ) group keys; a brace group that
\* is not closed, a closing brace on its own and a group that is neither one
\* character nor a keyword are rejected, and then nothing is typed.
RECURSIVE SendKeysParse(_, _, _)
SendKeysParse(s, i, typed) ==
    IF i > Len(s) THEN [ok |-> TRUE, typed |-> typed]
    ELSE IF s[i] = "{"
    THEN LET from == IF i + 2 <= Len(s) /\ s[i + 1] = "}" /\ ClosingBrace(s, i + 2) <= Len(s)
                     THEN i + 2 ELSE i + 1
             j == ClosingBrace(s, from)
             keyName == SubSeq(s, i + 1, j - 1)
         IN  IF j > Len(s) THEN [ok |-> FALSE, typed |-> <<>>]
             ELSE IF keyName = SendKeysEnter
             THEN SendKeysParse(s, j + 1, Append(typed, "\n"))
             ELSE IF Len(keyName) = 1 /\ keyName[1] \notin {"\n", "\r"}
             THEN SendKeysParse(s, j + 1, Append(typed, keyName[1]))
             ELSE [ok |-> FALSE, typed |-> <<>>]
    ELSE IF s[i] = "}" THEN [ok |-> FALSE, typed |-> <<>>]
    ELSE IF s[i] = "~" THEN SendKeysParse(s, i + 1, Append(typed, "\n"))
    ELSE IF s[i] \in {"+", "^", "%", "(", ")"}
    THEN SendKeysParse(s, i + 1, Append(typed, "modifier or group"))
    ELSE SendKeysParse(s, i + 1, Append(typed, s[i]))

\* C18: every escaped batch is a complete SendKeys literal (SendKeys accepts it:
\* no escape token is cut by the batch boundary and no brace is left unmatched),
\* and a call all of whose batches succeeded resolves with success = true and
\* errors undefined.
C18_BatchesAreCompleteLiterals ==
    /\ \A n \in DOMAIN typing.execs : SendKeysParse(typing.execs[n].escaped, 1, <<>>).ok
    /\ (typing.resolves # <<>> /\ FailedCallbacks = <<>>) =>
          /\ typing.resolves[1].success
          /\ typing.resolves[1].errors = <<>>

\* C19: for every batch of every text over the alphabet with the ten special
\* characters, SendKeys types back from the escaped batch the characters of the
\* batch; and escapeSendKeys returns every other character as it is.
C19_EscapeRoundTrip ==
    /\ \A n \in DOMAIN typing.execs :
          LET parsed == SendKeysParse(typing.execs[n].escaped, 1, <<>>)
          IN  parsed.ok /\ parsed.typed = typing.execs[n].batch
    /\ \A c \in WinChars \ SendKeysSpecials : escapeSendKeys(c) = <<c>>

\* PowerShell's reading of a single-quoted string whose opening quote is just
\* before position i of s: two quotes in a row are one quote of the value, a
\* single one ends the string
RECURSIVE PsSingleQuoted(_, _, _)
PsSingleQuoted(s, i, value) ==
    IF i > Len(s) THEN [closed |-> FALSE, value |-> value, rest |-> <<>>]
    ELSE IF s[i] = "'"
    THEN IF i < Len(s) /\ s[i + 1] = "'"
         THEN PsSingleQuoted(s, i + 2, Append(value, "'"))
         ELSE [closed |-> TRUE, value |-> value, rest |-> SubSeq(s, i + 1, Len(s))]
    ELSE PsSingleQuoted(s, i + 1, Append(value, s[i]))

\* the number of single quotes in s
Quotes(s) == Cardinality({i \in DOMAIN s : s[i] = "'"})

Count(s, char) == Cardinality({i \in DOMAIN s : s[i] = char})

\* the number of {ENTER} tokens in a SendKeys literal
EnterCount(lit) ==
    Cardinality({i \in DOMAIN lit :
                    /\ i + 6 <= Len(lit)
                    /\ SubSeq(lit, i, i + 6) = <<"{", "E", "N", "T", "E", "R", "}">>})

\* lit has an {ENTER} for each newline of text, and no newline or carriage
\* return of its own
NewlinesTranslated(text, lit) ==
    /\ \A i \in DOMAIN lit : lit[i] \notin {"\n", "\r"}
    /\ EnterCount(lit) = Count(text, "\n")

\* C21: in every SendKeys literal built from the caller's text, the batches of
\* simulateKeystrokesWindows and the command of pasteViaShellWindows alike,
\* each newline has become {ENTER} and each carriage return is dropped
C21_NewlinesBecomeEnter ==
    /\ \A i \in DOMAIN typing.execs :
            NewlinesTranslated(typing.execs[i].batch, typing.execs[i].escaped)
    /\ shellCommand # <<>> => NewlinesTranslated(shellCommand[1].text, shellCommand[1].escaped)

(***************************************************************************)
(* Properties of the double-quoted PowerShell string                       *)
(***************************************************************************)
\* the literal C22 describes: a backtick before each backslash, double quote,
\* backtick, $, [ and ]; {ENTER} for LF and for CRLF
RECURSIVE BacktickEscaped(_)
BacktickEscaped(text) ==
    IF text = <<>> THEN <<>>
    ELSE IF Head(text) \in {"\\", "\"", Backtick, "$", "[", "]"}
         THEN <<Backtick, Head(text)>> \o BacktickEscaped(Tail(text))
    ELSE IF Head(text) = "\n"
         THEN <<"{", "E", "N", "T", "E", "R", "}">> \o BacktickEscaped(Tail(text))
    ELSE IF Head(text) = "\r" /\ Len(text) >= 2 /\ text[2] = "\n"
         THEN <<"{", "E", "N", "T", "E", "R", "}">> \o BacktickEscaped(Tail(Tail(text)))
    ELSE <<Head(text)>> \o BacktickEscaped(Tail(text))

\* the text between the double quotes of the command that was started
EmbeddedText == LET cmd == request.spawned[1].args[2] IN SubSeq(cmd, 3, Len(cmd) - 2)

\* C22: the text embedded in the double-quoted PowerShell string has a backtick
\* before each backslash, double quote, backtick, $, [ and ], and {ENTER} for
\* each newline sequence
C22_BacktickEscapes ==
    request.spawned # <<>> => EmbeddedText = BacktickEscaped(request.text)

(***************************************************************************)
(* Properties of the macOS keystroke path                                  *)
(***************************************************************************)
\* the osascript call of simulateKeystrokesMac has been made
KeystrokeScriptStarted == request.spawned # <<>> /\ request.method = "osascript-keystroke"

\* an AppleScript string literal read from s[i] on, after its opening quote:
\* \\ is a backslash, \" a quote, \n \r \t a line feed, a return and a tab, any
\* other backslash pair is an error, and the first quote without a backslash
\* closes the string.  The characters up to the next backslash or quote are
\* taken in one step
RECURSIVE AppleScriptString(_, _, _)
AppleScriptString(s, i, value) ==
    LET marks == {j \in i..Len(s) : s[j] \in {"\\", "\""}}
        failed == [closed |-> FALSE, at |-> 0, value |-> value]
    IN  IF marks = {} THEN failed
        ELSE LET j == CHOOSE m \in marks : \A k \in marks : m <= k
                 read == value \o SubSeq(s, i, j - 1)
             IN  IF s[j] = "\"" THEN [closed |-> TRUE, at |-> j, value |-> read]
                 ELSE IF j = Len(s) THEN failed
                 ELSE CASE s[j + 1] = "\\" -> AppleScriptString(s, j + 2, Append(read, "\\"))
                        [] s[j + 1] = "\"" -> AppleScriptString(s, j + 2, Append(read, "\""))
                        [] s[j + 1] = "n" -> AppleScriptString(s, j + 2, Append(read, "\n"))
                        [] s[j + 1] = "r" -> AppleScriptString(s, j + 2, Append(read, "\r"))
                        [] s[j + 1] = "t" -> AppleScriptString(s, j + 2, Append(read, "\t"))
                        [] OTHER -> failed

\* C23: the literal simulateKeystrokesMac puts in its script, read as an
\* AppleScript string, is the original text, and the string ends at the
\* script's own closing quote, not before
C23_AppleScriptRoundTrip ==
    KeystrokeScriptStarted =>
        LET script == request.spawned[1].args[2]
            read == AppleScriptString(script, 3, <<>>)
        IN  /\ read.closed
            /\ read.at = Len(script)
            /\ read.value = request.text

\* a text with a double quote and a backslash has been put in a script
C23_Witness ==
    /\ KeystrokeScriptStarted
    /\ Count(request.text, "\"") > 0
    /\ Count(request.text, "\\") > 0
    /\ Len(request.spawned[1].args[2]) = Len(request.text) + 5

\* a 'simulate-keystrokes' request has been made on macOS
MacKeystrokes == IS_MAC /\ request.channel = "simulate-keystrokes"

\* the request went to pasteViaClipboardMac: it began with the clipboard write
\* and started no keystroke script
Redirected ==
    /\ request.events # <<>>
    /\ request.events[1] \in {"write", "writeThrew"}
    /\ request.method # "osascript-keystroke"

\* the request was typed: one executeCommand call, the keystroke script of
\* osascript, and no clipboard write
TypedOnce ==
    /\ request.events = <<"spawn">>
    /\ KeystrokeScriptStarted
    /\ request.spawned[1].command = "osascript"
    /\ request.spawned[1].args[1] = <<"-e">>
    /\ \A c \in CallIds : calls[c].started => c = 1

\* C24 as stated: on macOS a text of 200 characters or more is redirected to
\* the clipboard paste, a text of fewer than 200 is typed with one osascript
\* keystroke call
C24_AsStated ==
    MacKeystrokes =>
        IF Len(request.text) >= 200 THEN Redirected ELSE TypedOnce

\* C24, amended: on macOS a text of more than 200 characters is redirected to
\* the clipboard paste, a text of 200 characters or fewer is typed with one
\* osascript keystroke call
C24_LongTextIsPasted ==
    MacKeystrokes =>
        IF Len(request.text) > 200 THEN Redirected ELSE TypedOnce

\* a text of 201 characters has been pasted through the clipboard, and the
\* paste shortcut started
C24_Witness ==
    /\ MacKeystrokes
    /\ Len(request.text) = 201
    /\ Redirected
    /\ request.spawned # <<>>
    /\ request.method = "clipboard"

(***************************************************************************)
(* Properties of the Linux paths                                           *)
(***************************************************************************)
\* the request ran simulateKeystrokesLinux ('paste-powershell' on Linux does,
\* with a delay of 12)
LinuxTyping ==
    /\ PLATFORM = "linux"
    /\ request.channel \in {"simulate-keystrokes", "paste-powershell"}

\* the delay simulateKeystrokesLinux was called with
TypingDelay == IF request.channel = "simulate-keystrokes" THEN request.delay ELSE 12

\* the order of preference C25 gives for the display server
Preference ==
    IF linuxDisplayServer = "wayland" THEN <<"wtype", "xdotool", "ydotool">>
    ELSE <<"xdotool", "ydotool">>

\* the positions of Preference whose tool is on the PATH
Present == {i \in DOMAIN Preference : Preference[i] \in installed}

\* the option each tool takes its delay with
DelayOption(tool) ==
    CASE tool = "wtype" -> "-d"
      [] tool = "xdotool" -> "--delay"
      [] tool = "ydotool" -> "--key-delay"

\* C25: simulateKeystrokesLinux starts the first tool of the display server's
\* order of preference that is on the PATH (wtype, xdotool, ydotool on Wayland;
\* xdotool, ydotool on X11), that one only, with the delay as the value of the
\* tool's delay option; with none of them on the PATH it starts nothing
C25_ToolByPreference ==
    LinuxTyping =>
        IF Present = {} THEN request.spawned = <<>> /\ ~calls[1].started
        ELSE LET first == Preference[CHOOSE i \in Present : \A k \in Present : i <= k]
                 args == request.spawned[1].args
             IN  /\ request.spawned # <<>>
                 /\ request.spawned[1].command = first
                 /\ calls[1].command = first
                 /\ \A c \in CallIds : calls[c].started => c = 1
                 /\ \E i \in 1..(Len(args) - 1) :
                        /\ args[i] = <<DelayOption(first)>>
                        /\ args[i + 1] = <<String(TypingDelay)>>

\* on Wayland without wtype, with xdotool and ydotool: xdotool has been started
\* with the delay of the request
C25_Witness ==
    /\ LinuxTyping
    /\ linuxDisplayServer = "wayland"
    /\ installed = {"xdotool", "ydotool"}
    /\ request.channel = "simulate-keystrokes"
    /\ request.delay = 50
    /\ calls[1].started
    /\ calls[1].command = "xdotool"

\* simulateKeystrokesLinux was called and none of its tools is on the PATH
NoTypingToolCase == LinuxTyping /\ Present = {}

\* pasteViaClipboardLinux was called (the handler's own write returned) and
\* neither wtype on Wayland nor xdotool is on the PATH
NoKeyToolCase ==
    /\ PLATFORM = "linux"
    /\ request.channel = "paste-via-clipboard"
    /\ request.events # <<>>
    /\ request.events[1] = "handlerWrite"
    /\ ~(linuxDisplayServer = "wayland" /\ "wtype" \in installed)
    /\ "xdotool" \notin installed

\* the request made no executeCommand call, and once it is over the handler has
\* passed on a returned result: a failure with the given error text
FailedWithHint(hint) ==
    /\ request.spawned = <<>>
    /\ \A c \in CallIds : ~calls[c].started
    /\ request.stage = "done" =>
            /\ request.reply # <<>>
            /\ request.reply[1].success = FALSE
            /\ request.reply[1].error = <<hint>>

RECURSIVE ShellWords(_, _, _, _, _)
ShellWords(s, i, word, inWord, words) ==
    LET done == [ok |-> TRUE, argv |-> IF inWord THEN Append(words, word) ELSE words]
    IN  IF i > Len(s) THEN done
        ELSE CASE s[i] = " " ->
                    ShellWords(s, i + 1, <<>>, FALSE,
                               IF inWord THEN Append(words, word) ELSE words)
               [] s[i] = ";" -> done
               [] s[i] = "'" ->
                    LET closing == {j \in (i + 1)..Len(s) : s[j] = "'"}
                    IN  IF closing = {} THEN [ok |-> FALSE, argv |-> <<>>]
                        ELSE LET j == CHOOSE m \in closing : \A k \in closing : m <= k
                             IN  ShellWords(s, j + 1, word \o SubSeq(s, i + 1, j - 1),
                                            TRUE, words)
               [] OTHER -> ShellWords(s, i + 1, Append(word, s[i]), TRUE, words)

\* C27: the typing tool simulateKeystrokesLinux starts receives its argument
\* array as it is: the text is one argument, unchanged and not interpreted by
\* a shell, directly after a -- argument
C27_TextIsOneArgument ==
    (LinuxTyping /\ request.spawned # <<>>) =>
        LET call == request.spawned[1]
            received == ShellWords(call.line, 1, <<>>, FALSE, <<>>)
            n == Len(call.args)
        IN  /\ call.args[n] = request.text
            /\ call.args[n - 1] = <<"--">>
            /\ received.ok
            /\ received.argv = << <<call.command>> >> \o call.args

(***************************************************************************)
(* Properties of the clipboard paste                                       *)
(***************************************************************************)
\* the request called pasteViaClipboardWindows, ...Linux or ...Mac
PasteCalled ==
    \/ request.fn # ""
    \/ \E i \in DOMAIN request.events : request.events[i] \in {"write", "writeThrew"}
    \/ request.method = "clipboard"

\* the events of the function itself (the write of the 'paste-via-clipboard'
\* handler comes before the call)
IsOwnEvent(e) == e \notin {"handlerWrite", "handlerWriteThrew"}
PasteEvents == SelectSeq(request.events, IsOwnEvent)

\* the order of a call: the write, the settle delay from start to end, the
\* paste shortcut
PasteOrder == <<"write", "settleStart", "settleElapsed", "spawn">>

\* C28: in every pasteViaClipboard call the clipboard write comes before the
\* settle delay starts and the paste-shortcut process is started only after
\* the delay has elapsed, so never before the text is on the clipboard; a call
\* whose write throws starts neither
C28_WriteSettlePaste ==
    PasteCalled =>
        /\ \/ PasteEvents = <<"writeThrew">>
           \/ \E n \in 1..4 : PasteEvents = SubSeq(PasteOrder, 1, n)
        /\ calls[1].started <=> PasteEvents = PasteOrder
        /\ calls[1].started =>
                /\ clipboard = request.text
                /\ calls[1].timeoutMs = 3000
                /\ request.spawned[1].command \in {"powershell", "osascript", "wtype", "xdotool"}

\* a call (from 'paste-powershell' on macOS, where the handler writes nothing
\* itself) has written, waited and started the paste shortcut
C28_Witness ==
    /\ IS_MAC
    /\ request.channel = "paste-powershell"
    /\ request.events = PasteOrder
    /\ calls[1].started
    /\ calls[1].command = "osascript"
    /\ clipboard = <<"a">>

(***************************************************************************)
(* Properties of the dispatch handlers                                     *)
(***************************************************************************)
\* the underlying work of the request failed: a clipboard write threw, no tool
\* was found, the process timed out, ended with a code other than 0 or could
\* not be started, or a batch of keystrokes failed
WorkFailed ==
    \/ \E i \in DOMAIN request.events :
            request.events[i] \in {"writeThrew", "handlerWriteThrew"}
    \/ /\ PLATFORM = "linux"
       /\ request.stage = "done"
       /\ request.spawned = <<>>
    \/ /\ calls[1].events # <<>>
       /\ \/ FirstEvent(1).type \in {"timeout", "error"}
          \/ FirstEvent(1).type = "close" /\ FirstEvent(1).arg # "0"
    \/ typing.errors # <<>>

\* C29: whatever fails under a 'simulate-keystrokes', 'paste-via-clipboard' or
\* 'paste-powershell' request, the handler does not reject: what it returns is
\* a result with success, the requestId and the platform, and success is false
\* when the work failed
C29_FailuresAreResults ==
    request.stage = "done" =>
        /\ request.reply # <<>>
        /\ {"success", "requestId", "platform"} \subseteq DOMAIN request.reply[1]
        /\ request.reply[1].requestId = request.requestId
        /\ request.reply[1].platform = PLATFORM_NAME
        /\ WorkFailed => request.reply[1].success = FALSE

\* a 'paste-via-clipboard' request on Linux whose paste process timed out has
\* been answered with a failure
C29_Witness ==
    /\ PLATFORM = "linux"
    /\ request.channel = "paste-via-clipboard"
    /\ request.stage = "done"
    /\ calls[1].events # <<>>
    /\ FirstEvent(1).type = "timeout"
    /\ request.reply # <<>>
    /\ request.reply[1].success = FALSE
    /\ request.reply[1].platform = "Linux"

\* C30: the tools on the PATH are found out once, when the process starts: no
\* 'simulate-keystrokes', 'paste-via-clipboard' or 'paste-powershell' request
\* makes a hasCommand call
C30_NoProbeInRequests ==
    request.stage # "idle" => probes = <<>>

(***************************************************************************)
(* Properties of the shell paste                                           *)
(***************************************************************************)
\* a 'paste-powershell' request has been made on Windows or on macOS
ShellPasteRequest == (IS_WINDOWS \/ IS_MAC) /\ request.channel = "paste-powershell"

\* the argument of the process started is a script that holds the text, and
\* not the script of the paste shortcut
DeliversText ==
    /\ request.spawned[1].command = (IF IS_WINDOWS THEN "powershell" ELSE "osascript")
    /\ request.method # "clipboard"
    /\ request.spawned[1].args[2]
            \notin {pasteViaClipboardWindowsResume(request.requestId).next.args[2],
                    pasteViaClipboardMacResume(request.requestId).next.args[2]}

\* C31: on Windows and on macOS a 'paste-powershell' request takes another
\* path than the clipboard paste: it writes nothing to the clipboard and does
\* not wait to trigger the paste shortcut, and the process it starts is the
\* scripting tool (PowerShell SendKeys, osascript) given the text
C31_ShellPasteIsItsOwnPath ==
    ShellPasteRequest =>
        /\ \A i \in DOMAIN request.events : request.events[i] \notin {"write", "writeThrew"}
        /\ request.fn = ""
        /\ request.spawned # <<>> => DeliversText

\* logs holds the success-level completion entry of the request
CompletionLogged ==
    \E i \in DOMAIN logs :
        /\ logs[i].level = "success"
        /\ logs[i].category = "paste"
        /\ logs[i].message[1] \in {"Keystroke simulation completed",
                                   "Clipboard paste completed", "paste completed"}
        /\ logs[i].message[2] = request.requestId

\* C38: a dispatch handler logs its success-level 'completed' entry only when
\* the result it returns has success=true: a request answered with
\* success=false has no success-level completion entry in the log
C38_CompletedMeansSuccess ==
    (request.stage = "done" /\ request.reply # <<>> /\ ~request.reply[1].success)
        => ~CompletionLogged

(***************************************************************************)
(* Properties of the batches as a whole                                    *)
(***************************************************************************)
\* the number of batches of the call: ceil(text.length / batchSize)
BatchCount == (Len(typing.text) + typing.batchSize - 1) \div typing.batchSize

\* C34: the raw slices simulateKeystrokesWindows sends follow one another in
\* the text without overlap, each batchSize long but for the last, and joined
\* in the order sent they are the text so far, the whole text when the call has
\* resolved; ceil(length / batchSize) exec calls are made, and an empty text
\* makes none and resolves with success=true
C34_SlicesPartitionText ==
    typing.started =>
        LET b == typing.batchSize
            made == Len(typing.execs)
        IN  /\ made <= BatchCount
            /\ \A n \in DOMAIN typing.execs :
                  /\ typing.execs[n].pos = (n - 1) * b
                  /\ Len(typing.execs[n].batch) =
                        (IF n < BatchCount THEN b ELSE Len(typing.text) - (n - 1) * b)
                  /\ Len(typing.execs[n].batch) >= 1
            /\ JoinBatches(typing.execs) =
                    SubSeq(typing.text, 1, MathMin(made * b, Len(typing.text)))
            /\ typing.resolves # <<>> =>
                  /\ made = BatchCount
                  /\ JoinBatches(typing.execs) = typing.text
            /\ typing.text = <<>> =>
                  /\ made = 0
                  /\ typing.resolves # <<>> => typing.resolves[1].success

\* it's went out as the two batches it and 's, and the call has resolved
C34_Witness ==
    /\ typing.text = QuoteText
    /\ typing.batchSize = 2
    /\ Len(typing.execs) = 2
    /\ typing.execs[2].batch = <<"'", "s">>
    /\ typing.resolves # <<>>

\* C35: given that timers fire and every exec call calls back, each
\* simulateKeystrokesWindows call resolves, also when its batches fail
C35_KeystrokesResolve == typing.started ~> (typing.resolves # <<>>)

\* every one of the five batches of a{b}c failed, and the call has resolved
C35_Witness ==
    /\ typing.text = ExampleText
    /\ typing.batchSize = 1
    /\ Len(typing.errors) = 5
    /\ typing.resolves # <<>>
    /\ ~typing.resolves[1].success

(***************************************************************************)
(* Properties of the polling timer                                         *)
(***************************************************************************)
\* the monitor was started while it was running: the start logged its stop
RestartedWhileRunning ==
    \E i \in DOMAIN logs :
        /\ i > 1
        /\ logs[i].message = <<"Starting clipboard monitoring">>
        /\ logs[i - 1].message = <<"Clipboard monitoring stopped">>

FailedKeySet == {hotkeyReport[1].failed[i] : i \in DOMAIN hotkeyReport[1].failed}

\* C33: setupHotkeys goes through the 22 hotkeys (nine digit keys, nine numpad
\* keys, four named keys) and counts each once, as registered or as failed,
\* whether register returned false or threw: registeredCount plus the number
\* of failed keys is 22, the total reported
C33_EveryKeyCountedOnce ==
    hotkeyReport # <<>> =>
        LET report == hotkeyReport[1]
        IN  /\ Len(PasteKeys) = 18
            /\ Len(AdditionalKeys) = 4
            /\ Cardinality(HotkeyKeySet) = 22
            /\ report.total = 22
            /\ report.registered + Len(report.failed) = report.total
            /\ report.registered = Cardinality(registered)
            /\ Len(report.failed) = Cardinality(FailedKeySet)
            /\ registered \cap FailedKeySet = {}
            /\ registered \cup FailedKeySet = HotkeyKeySet

\* register threw on Ctrl+Alt+1 and returned false for Ctrl+Alt+O: 20 keys are
\* registered and the two are the failed ones
C33_Witness ==
    /\ hotkeyReport # <<>>
    /\ hotkeyReport[1].registered = 20
    /\ hotkeyReport[1].failed =
            << <<"CommandOrControl+Alt+", "1">>, <<"CommandOrControl+Alt+", "O">> >>
    /\ \E i \in DOMAIN logs :
            logs[i].message = <<"Failed to register", <<"CommandOrControl+Alt+", "1">>>>
            /\ logs[i].level = "error"

\* C40: in a 'test-hotkeys' result registered is the length of registeredKeys,
\* no key is in both registeredKeys and failedKeys, success is true exactly
\* when registered > 0, and registered plus the length of failedKeys is total
C40_TestResultAddsUp ==
    hotkeyTest # <<>> =>
        LET result == hotkeyTest[1]
        IN  /\ result.registered = Len(result.registeredKeys)
            /\ \A i \in DOMAIN result.registeredKeys, j \in DOMAIN result.failedKeys :
                    result.registeredKeys[i] # result.failedKeys[j]
            /\ result.success = (result.registered > 0)
            /\ result.registered + Len(result.failedKeys) = result.total

(***************************************************************************)
(* Properties of the preload bridge                                        *)
(***************************************************************************)
\* the scheme of a URL: what stands before its first colon, in lower case;
\* <<"none">> for a string without a colon
Scheme(url) ==
    LET colons == {i \in DOMAIN url : url[i] = ":"}
    IN  IF colons = {} THEN <<"none">>
        ELSE LET first == CHOOSE i \in colons : \A k \in colons : i <= k
             IN  [i \in 1..(first - 1) |-> LowerCase(url[i])]

\* the channels the renderer may name with each function of the bridge
Whitelist(api) ==
    CASE api = "invoke" ->
            {"simulate-keystrokes", "paste-via-clipboard", "paste-powershell", "test-hotkeys",
             "get-clipboard-content", "get-main-process-logs"}
      [] api = "send" ->
            {"minimize-window", "close-app", "set-local-clipboard", "renderer-log"}
      [] api = "on" ->
            {"paste-cell", "copy-to-notepad", "clipboard-changed", "paste-on-deck",
             "reverse-copy", "hotkey-registration-complete", "main-process-log",
             "show-debug-logs"}

\* C39: through the bridge the renderer reaches ipcRenderer.invoke, .send and
\* .on only with a channel of the function's whitelist, passed on as it is; a
\* call that names another channel throws and passes nothing on; and
\* openExternal passes on only URLs whose scheme is http, https or mailto
C39_OnlyWhitelisted ==
    \A n \in DOMAIN bridge :
        LET call == bridge[n]
        IN  /\ call.threw <=> call.passed = <<>>
            /\ call.passed # <<>> => call.passed[1].arg = call.arg
            /\ call.api \in {"invoke", "send", "on"} =>
                  /\ call.passed # <<>> <=> call.arg \in Whitelist(call.api)
                  /\ call.passed # <<>> =>
                        call.passed[1].method =
                            (CASE call.api = "invoke" -> "ipcRenderer.invoke"
                               [] call.api = "send" -> "ipcRenderer.send"
                               [] call.api = "on" -> "ipcRenderer.on")
            /\ call.api = "openExternal" =>
                  /\ call.passed # <<>> =>
                        /\ Scheme(call.arg) \in {<<"h", "t", "t", "p">>,
                                                 <<"h", "t", "t", "p", "s">>,
                                                 <<"m", "a", "i", "l", "t", "o">>}
                        /\ call.passed[1].method = "shell.openExternal"

\* invoke('renderer-log'), a channel of the send list, threw, and
\* openExternal('HTTP://a') was passed on
C39_Witness ==
    /\ Len(bridge) = 2
    /\ bridge[1].api = "invoke"
    /\ bridge[1].arg = "renderer-log"
    /\ bridge[1].threw
    /\ bridge[1].passed = <<>>
    /\ bridge[2].api = "openExternal"
    /\ bridge[2].arg = <<"H", "T", "T", "P", ":", "/", "/", "a">>
    /\ bridge[2].passed # <<>>

(***************************************************************************)
(* Properties of requests that overlap                                     *)
(***************************************************************************)
\* the callbacks of request r that were given an error, in order
FailedCallbacksOf(r) ==
    SelectSeq(typings[r].closure.events, LAMBDA e : e.type = "callback" /\ e.error # <<>>)

\* C32: 'simulate-keystrokes' requests that overlap are not held back for one
\* another, and each keeps its own state: within each call at most one batch
\* is in flight and the batches run in the order of the text, one after the
\* callback of the one before, and the result of each call has its own
\* requestId and lists the failures of its own batches only
C32_CallsKeepTheirOwnState ==
    \A r \in OverlapRequestIds :
        LET t == typings[r].closure
            failed == FailedCallbacksOf(r)
        IN  /\ Cardinality(t.inflight) + t.timers <= 1
            /\ \A i \in DOMAIN t.events :
                  /\ t.events[i].type = (IF i % 2 = 1 THEN "exec" ELSE "callback")
                  /\ t.events[i].n = (i + 1) \div 2
            /\ \A n \in DOMAIN t.execs :
                  /\ t.execs[n].pos = (n - 1) * t.batchSize
                  /\ t.execs[n].batch = SubSeq(t.text, t.execs[n].pos + 1,
                                               MathMin(t.execs[n].pos + t.batchSize, Len(t.text)))
            /\ Len(t.errors) = Len(failed)
            /\ typings[r].reply # <<>> =>
                  LET result == typings[r].reply[1]
                  IN  /\ result.requestId = r
                      /\ JoinBatches(t.execs) = t.text
                      /\ result.success = (failed = <<>>)
                      /\ failed = <<>> => result.errors = <<>>
                      /\ failed # <<>> =>
                            result.errors = << [i \in 1..Len(failed) |->
                                                  <<"Position", t.execs[failed[i].n].pos,
                                                    failed[i].error[1]>>] >>

\* the two calls interleave: the first batch of r1 has failed and its second
\* batch is in flight while the first batch of r2 is in flight, and r2 has no
\* failure of its own
C32_Witness ==
    /\ typings["r1"].closure.inflight = {2}
    /\ typings["r2"].closure.inflight = {1}
    /\ Len(typings["r1"].closure.errors) = 1
    /\ typings["r2"].closure.errors = <<>>

\* the paste shortcut of request r has been triggered: its paste process was
\* started
PasteTriggered(r) == pastes[r].seen # <<>>

\* C37: for every 'paste-via-clipboard' request, also when two of them
\* overlap, the clipboard holds that request's text at the moment its paste
\* shortcut is triggered (no writer outside this process)
C37_ClipboardIsTheRequestsText ==
    \A r \in OverlapRequestIds :
        PasteTriggered(r) => pastes[r].seen[1] = pastes[r].request.text

====
